---- MODULE Spec2Model ----
(***************************************************************************)
(* Verification model of the drawing feasibility pipeline:                 *)
(*   - the structured-response parser of DrawingAnalyzer                   *)
(*     (json.loads, _repair_truncated_json, the single concise retry),     *)
(*   - the OCR fallback merger (merge_with_vlm_results, apply_ocr_fallback)*)
(*   - the exception engine's report summary,                              *)
(*   - the background pipeline process_drawing_analysis.                   *)
(***************************************************************************)
EXTENDS Integers, Sequences, FiniteSets, TLC

(***************************************************************************)
(* TEXT.  A response text is a sequence of lexical atoms: each atom is one *)
(* structural character, the double quote, a blank, or a maximal run of    *)
(* plain characters (a word or a numeral).  str.count, str.rstrip,         *)
(* str.endswith and the "', ' in" test of the repair act on atoms exactly  *)
(* as they act on the characters, because a run holds none of the          *)
(* characters they look for.                                               *)
(***************************************************************************)
Q == "\""

WS == {" "}

Structural == {"{", "}", "[", "]", ",", ":"}

Numerals == {"1", "0.4", "0.12", "0.45", "0.1"}

Literals == {"true", "false", "null"}

\* JSON values: one record shape for every kind, so that values compare.
JV(t, s, items) == [t |-> t, s |-> s, items |-> items]

JNull == JV("null", <<>>, <<>>)

Tok(k, s) == [k |-> k, s |-> s]

\* index of the first double quote at or after position i (0: none);
\* no backslash occurs in the texts, so a string ends at the next quote.
RECURSIVE ClosingQuote(_, _)
ClosingQuote(text, i) ==
    IF i > Len(text) THEN 0
    ELSE IF text[i] = Q THEN i
    ELSE ClosingQuote(text, i + 1)

Count(text, c) == Cardinality({i \in 1..Len(text) : text[i] = c})

\* number of double quotes before position i: odd inside a string
QuotesBefore(text, i) == Cardinality({j \in 1..(i - 1) : text[j] = Q})

\* a token starts at every atom outside the strings that is not a blank; a
\* string starts at its opening quote
IsTokenStart(text, i) == QuotesBefore(text, i) % 2 = 0 /\ text[i] \notin WS

TokenAt(text, i) ==
    LET c == text[i] IN
    IF c \in Structural THEN Tok(c, <<>>)
    ELSE IF c = Q
         THEN Tok("str", SubSeq(text, i + 1, ClosingQuote(text, i + 1) - 1))
    ELSE IF c \in Numerals THEN Tok("num", <<c>>)
    ELSE IF c \in Literals THEN Tok("lit", <<c>>)
    ELSE Tok("bad", <<>>)

\* the tokens that start in text[lo..hi], in order
RECURSIVE TokensIn(_, _, _)
TokensIn(text, lo, hi) ==
    IF lo > hi THEN <<>>
    ELSE IF lo = hi
         THEN IF IsTokenStart(text, lo) THEN <<TokenAt(text, lo)>> ELSE <<>>
    ELSE TokensIn(text, lo, (lo + hi) \div 2)
             \o TokensIn(text, (lo + hi) \div 2 + 1, hi)

\* json.scanner: the lexical part of json.loads; it fails on an unterminated
\* string and on an atom that starts no JSON token.
Tokenize(text) ==
    IF /\ Count(text, Q) % 2 = 0
       /\ \A i \in 1..Len(text) :
              IsTokenStart(text, i) => TokenAt(text, i).k # "bad"
    THEN [ok |-> TRUE, toks |-> TokensIn(text, 1, Len(text))]
    ELSE [ok |-> FALSE, toks |-> <<>>]

PFail == [ok |-> FALSE, val |-> JNull, next |-> 0]

POk(v, n) == [ok |-> TRUE, val |-> v, next |-> n]

\* json.decoder: value, array and object of the JSON grammar.
RECURSIVE ParseValue(_, _)
RECURSIVE ParseElements(_, _, _)
RECURSIVE ParseMembers(_, _, _)
ParseValue(toks, i) ==
    IF i > Len(toks) THEN PFail
    ELSE LET t == toks[i] IN
         CASE t.k = "str" -> POk(JV("str", t.s, <<>>), i + 1)
           [] t.k = "num" -> POk(JV("num", t.s, <<>>), i + 1)
           [] t.k = "lit" -> POk(JV(t.s[1], <<>>, <<>>), i + 1)
           [] t.k = "[" ->
                IF i + 1 <= Len(toks) /\ toks[i + 1].k = "]"
                THEN POk(JV("arr", <<>>, <<>>), i + 2)
                ELSE ParseElements(toks, i + 1, <<>>)
           [] t.k = "{" ->
                IF i + 1 <= Len(toks) /\ toks[i + 1].k = "}"
                THEN POk(JV("obj", <<>>, <<>>), i + 2)
                ELSE ParseMembers(toks, i + 1, <<>>)
           [] OTHER -> PFail

ParseElements(toks, i, acc) ==
    LET v == ParseValue(toks, i) IN
    IF ~v.ok \/ v.next > Len(toks) THEN PFail
    ELSE IF toks[v.next].k = ","
         THEN ParseElements(toks, v.next + 1, Append(acc, v.val))
    ELSE IF toks[v.next].k = "]"
         THEN POk(JV("arr", <<>>, Append(acc, v.val)), v.next + 1)
    ELSE PFail

ParseMembers(toks, i, acc) ==
    IF i + 1 > Len(toks) \/ toks[i].k # "str" \/ toks[i + 1].k # ":" THEN PFail
    ELSE LET v == ParseValue(toks, i + 2) IN
         IF ~v.ok \/ v.next > Len(toks) THEN PFail
         ELSE LET m == JV("member", toks[i].s, <<v.val>>) IN
              IF toks[v.next].k = ","
              THEN ParseMembers(toks, v.next + 1, Append(acc, m))
              ELSE IF toks[v.next].k = "}"
                   THEN POk(JV("obj", <<>>, Append(acc, m)), v.next + 1)
              ELSE PFail

\* json.loads(text): ok = no JSONDecodeError; trailing non-blank text is
\* "Extra data".
JsonLoads(text) ==
    LET tk == Tokenize(text) IN
    IF ~tk.ok THEN [ok |-> FALSE, val |-> JNull]
    ELSE LET v == ParseValue(tk.toks, 1) IN
         IF v.ok /\ v.next = Len(tk.toks) + 1
         THEN [ok |-> TRUE, val |-> v.val]
         ELSE [ok |-> FALSE, val |-> JNull]

RECURSIVE Rstrip(_)
Rstrip(text) ==
    IF text # <<>> /\ text[Len(text)] \in WS
    THEN Rstrip(SubSeq(text, 1, Len(text) - 1))
    ELSE text

Repeat(c, n) == [i \in 1..n |-> c]

EndsWith(text, c) == text # <<>> /\ text[Len(text)] = c

ContainsCommaBlank(text) ==
    \E i \in 1..(Len(text) - 1) : text[i] = "," /\ text[i + 1] = " "

\* the literal ', "page_number": 1 }]'
PageNumberCloser ==
    <<",", " ", Q, "page_number", Q, ":", " ", "1", " ", "}", "]">>

\* the literal ', 0.1], "page_number": 1 }]'
CoordinateCloser ==
    <<",", " ", "0.1", "]", ",", " ", Q, "page_number", Q, ":", " ", "1", " ",
      "}", "]">>

NoText == [ok |-> FALSE, text |-> <<>>]

CloseBrackets(r) ==
    IF Count(r, "[") > Count(r, "]")
    THEN r \o Repeat("]", Count(r, "[") - Count(r, "]"))
    ELSE r

CloseBraces(r) ==
    IF Count(r, "{") > Count(r, "}")
    THEN r \o Repeat("}", Count(r, "{") - Count(r, "}"))
    ELSE r

FixOpenBracket(r) ==
    IF EndsWith(Rstrip(r), "[")
    THEN SubSeq(Rstrip(r), 1, Len(Rstrip(r)) - 1) \o PageNumberCloser
    ELSE r

FixIncompleteNumber(r) ==
    IF ContainsCommaBlank(r) /\ ~EndsWith(Rstrip(r), "}")
    THEN IF Count(r, "[") > Count(r, "]")
         THEN r \o CoordinateCloser
         ELSE r \o <<"}">>
    ELSE r

\* a repair that returns the patched text without parsing it
RepairUnchecked(text) ==
    IF JsonLoads(text).ok THEN [ok |-> TRUE, text |-> text]
    ELSE [ok |-> TRUE,
          text |-> FixIncompleteNumber(FixOpenBracket(CloseBraces(
                       CloseBrackets(Rstrip(text)))))]

\* DrawingAnalyzer._repair_truncated_json: the text when it parses as it is,
\* else the patched text when that parses, else None.
RepairTruncatedJson(text) ==
    IF JsonLoads(text).ok THEN [ok |-> TRUE, text |-> text]
    ELSE LET repaired ==
                 FixIncompleteNumber(FixOpenBracket(CloseBraces(
                     CloseBrackets(Rstrip(text)))))
         IN IF JsonLoads(repaired).ok
            THEN [ok |-> TRUE, text |-> repaired]
            ELSE NoText

(***************************************************************************)
(* RESPONSE TEXTS.  What the upstream model can return: JSON documents in  *)
(* the two usual layouts (", " and ": " separators, or none), and every    *)
(* truncation of them.                                                     *)
(***************************************************************************)
MaxDims == 2

Styles == {"spaced", "compact"}

Comma(st) == IF st = "spaced" THEN <<",", " ">> ELSE <<",">>

Colon(st) == IF st = "spaced" THEN <<":", " ">> ELSE <<":">>

Str(s) == <<Q>> \o s \o <<Q>>

RECURSIVE Join(_, _)
Join(parts, sep) ==
    IF parts = <<>> THEN <<>>
    ELSE IF Len(parts) = 1 THEN parts[1]
    ELSE parts[1] \o sep \o Join(Tail(parts), sep)

Obj(ms, st) == <<"{">> \o Join(ms, Comma(st)) \o <<"}">>

Arr(xs, st) == <<"[">> \o Join(xs, Comma(st)) \o <<"]">>

Mem(k, v, st) == Str(<<k>>) \o Colon(st) \o v

\* contents of a feature string: plain, or holding a brace or a bracket
FeatureTexts == {<<"rib">>, <<"{">>, <<"}">>, <<"[">>, <<"]">>}

DimText(f, v, st) ==
    Obj(<<Mem("feature", Str(f), st), Mem("value", v, st),
          Mem("unit", Str(<<"mm">>), st)>>, st)

\* a specification with n dimensions of feature f, then the material
SpecDoc(f, n, st) ==
    Obj(<<Mem("dimensions", Arr([i \in 1..n |-> DimText(f, <<"0.4">>, st)], st), st),
          Mem("material", Str(<<"PP">>), st)>>, st)

\* a specification whose last dimension carries a numeric array
ArrayValueDoc(st) ==
    Obj(<<Mem("dimensions",
              Arr(<<DimText(<<"rib">>, <<"0.4">>, st),
                    Obj(<<Mem("feature", Str(<<"rib">>), st),
                          Mem("unit", Str(<<"mm">>), st),
                          Mem("value", Arr(<<<<"0.12">>, <<"0.45">>, <<"0.1">>>>, st),
                              st)>>,
                        st)>>, st), st)>>, st)

\* the same response cut inside the array, after the comma that follows 0.45
DanglingArrayText(st) ==
    <<"{">> \o Str(<<"dimensions">>) \o Colon(st) \o <<"[">>
        \o DimText(<<"rib">>, <<"0.4">>, st) \o Comma(st)
        \o <<"{">> \o Mem("feature", Str(<<"rib">>), st) \o Comma(st)
        \o Mem("unit", Str(<<"mm">>), st) \o Comma(st)
        \o Str(<<"value">>) \o Colon(st) \o <<"[", "0.12">> \o Comma(st)
        \o <<"0.45", ",">>

\* a specification whose dimension has confidence 0.4 and a page
LowConfidenceDoc(st) ==
    Obj(<<Mem("dimensions",
              Arr(<<Obj(<<Mem("feature", Str(<<"rib">>), st),
                          Mem("value", <<"0.4">>, st),
                          Mem("unit", Str(<<"mm">>), st),
                          Mem("confidence", <<"0.4">>, st),
                          Mem("page", <<"1">>, st)>>, st)>>, st), st)>>, st)

\* a dimension without its value
MissingValueDoc(st) ==
    Obj(<<Mem("dimensions",
              Arr(<<Obj(<<Mem("feature", Str(<<"rib">>), st),
                          Mem("unit", Str(<<"mm">>), st)>>, st)>>, st), st)>>, st)

Docs ==
    {SpecDoc(f, n, st) : f \in FeatureTexts, n \in 0..MaxDims, st \in Styles}
    \cup {ArrayValueDoc(st) : st \in Styles}
    \cup {MissingValueDoc(st) : st \in Styles}
    \cup {LowConfidenceDoc(st) : st \in Styles}
    \cup {<<"{", "}">>, <<"[", "]">>}

Prefix(d, n) == SubSeq(d, 1, n)

(***************************************************************************)
(* DATA MODEL.  Numbers are held in hundredths; None has one stand-in per   *)
(* type of field.                                                           *)
(***************************************************************************)
NoneNum == -1

NoneText == <<"<None>">>

\* stand-in for a value of the wrong type where a string is declared
InvalidText == <<"<invalid>">>

NoBBox == [kind |-> "none", c |-> <<>>]

\* kind "list": a plain [x1, y1, x2, y2]; kind "model": a BoundingBox object
BBox(kind, c) == [kind |-> kind, c |-> c]

Units == {"mm", "in", "cm"}

\* the declared fields of Dimension
\* a Dimension model that also declared the page attribute
DimensionFieldsWithPage ==
    {"feature", "value", "unit", "tolerance", "bbox", "confidence", "page"}

DimensionFields ==
    {"feature", "value", "unit", "tolerance", "bbox", "confidence"}

RequiredDimensionFields == {"feature", "value", "unit"}

DimensionDefault(f) ==
    CASE f = "tolerance" -> NoneText
      [] f = "bbox" -> NoBBox
      [] f = "confidence" -> NoneNum
      [] OTHER -> NoneNum

\* Dimension with keyword arguments kw: the declared fields only (other keys are ignored), the
\* required ones present, feature a str, value a float, unit a UnitType,
\* tolerance a str or None, bbox a BoundingBox or None, confidence None or
\* in [0, 1]; otherwise a ValidationError.
NewDimension(kw) ==
    IF /\ RequiredDimensionFields \subseteq DOMAIN kw
       /\ kw["feature"] \notin {InvalidText, NoneText}
       /\ ("tolerance" \in DOMAIN kw => kw["tolerance"] # InvalidText)
       /\ kw["value"] \in Numerals
       /\ kw["unit"] \in Units
       /\ ("bbox" \in DOMAIN kw => kw["bbox"].kind \in {"none", "model"})
       /\ ("confidence" \in DOMAIN kw =>
              kw["confidence"] = NoneNum \/ kw["confidence"] \in 0..100)
    THEN [ok |-> TRUE,
          obj |-> [f \in DimensionFields |->
                      IF f \in DOMAIN kw THEN kw[f] ELSE DimensionDefault(f)]]
    ELSE [ok |-> FALSE, obj |-> <<>>]

\* getattr(d, name): AttributeError when the object has no such attribute
HasAttr(d, name) == name \in DOMAIN d

NewAnalysis(dims, material) == [dimensions |-> dims, material |-> material]

(***************************************************************************)
(* SCHEMA VALIDATION: the DrawingAnalysis built from a parsed value        *)
(***************************************************************************)
HasKey(v, k) == \E i \in 1..Len(v.items) : v.items[i].s = <<k>>

\* d[k] of the dict json.loads built: the last member of that name
Lookup(v, k) ==
    v.items[CHOOSE i \in 1..Len(v.items) :
                /\ v.items[i].s = <<k>>
                /\ \A j \in (i + 1)..Len(v.items) : v.items[j].s # <<k>>].items[1]

Keys(v) == {v.items[i].s[1] : i \in {j \in 1..Len(v.items) : Len(v.items[j].s) = 1}}

\* float(numeral), in hundredths
Hundredths(n) ==
    CASE n = "1" -> 100
      [] n = "0.4" -> 40
      [] n = "0.12" -> 12
      [] n = "0.45" -> 45
      [] OTHER -> 10

IsNumeralString(v) == v.t = "str" /\ Len(v.s) = 1 /\ v.s[1] \in Numerals

\* the value pydantic reads from a JSON value for field f of Dimension (lax
\* mode: a numeric string is a float); the responses hold no booleans
FieldOfJson(f, v) ==
    CASE f \in {"feature", "tolerance"} ->
            IF v.t = "str" THEN v.s
            ELSE IF v.t = "null" THEN NoneText
            ELSE InvalidText
      [] f = "value" ->
            IF v.t = "num" \/ IsNumeralString(v) THEN v.s[1] ELSE "<invalid>"
      [] f = "unit" ->
            IF v.t = "str" /\ Len(v.s) = 1 THEN v.s[1] ELSE "<invalid>"
      [] f = "confidence" ->
            IF v.t = "num" \/ IsNumeralString(v) THEN Hundredths(v.s[1])
            ELSE IF v.t = "null" THEN NoneNum
            ELSE 101
      [] f = "bbox" ->
            IF v.t = "null" THEN NoBBox
            ELSE IF /\ v.t = "obj" /\ HasKey(v, "coordinates")
                    /\ Lookup(v, "coordinates").t = "arr"
                    /\ Len(Lookup(v, "coordinates").items) = 4
                    /\ \A i \in 1..4 : Lookup(v, "coordinates").items[i].t = "num"
            THEN BBox("model", [i \in 1..4 |->
                        Hundredths(Lookup(v, "coordinates").items[i].s[1])])
            ELSE BBox("invalid", <<>>)
      [] f = "page" ->
            IF v.t = "num" THEN Hundredths(v.s[1]) \div 100 ELSE NoneNum
      [] OTHER -> v

\* the keyword arguments a JSON object gives to Dimension
KwargsOfJson(v) == [f \in Keys(v) |-> FieldOfJson(f, Lookup(v, f))]

\* the list of Dimension objects of a JSON array, or a ValidationError
RECURSIVE DimensionsOfJson(_, _, _)
DimensionsOfJson(items, i, acc) ==
    IF i > Len(items) THEN [ok |-> TRUE, dims |-> acc]
    ELSE IF items[i].t # "obj" THEN [ok |-> FALSE, dims |-> <<>>]
    ELSE LET d == NewDimension(KwargsOfJson(items[i])) IN
         IF ~d.ok THEN [ok |-> FALSE, dims |-> <<>>]
         ELSE DimensionsOfJson(items, i + 1, Append(acc, d.obj))

\* error outcomes: the class of the exception and its message
Err(cls, msg) == [cls |-> cls, msg |-> msg]

NoError == Err("", "")

\* "Failed to parse Gemini response as JSON after retry with concise prompt"
RetryParseError == Err("ValueError", "parse failed after retry with concise prompt")

\* "Failed to parse Gemini response as JSON after repair attempt"
RepairParseError == Err("ValueError", "parse failed after repair attempt")

\* a timeout raised with the message of the parse failure
TimedOutAsParseError == RetryParseError

\* "Gemini model timed out after ... seconds"
TimedOutError == Err("ValueError", "model timed out")

\* pydantic's ValidationError (a subclass of ValueError)
SchemaError == Err("ValidationError", "validation errors for DrawingAnalysis")

\* unpacking, as keyword arguments, a value that is not a dict
MappingError == Err("TypeError", "argument must be a mapping")

\* whatever else generate_content_async raises
UpstreamError == Err("Exception", "upstream call failed")

\* 'ExceptionSummary' object has no attribute 'high_count'
AttributeError == Err("AttributeError", "no attribute high_count")

Outcome(kind, analysis, error) ==
    [kind |-> kind, analysis |-> analysis, error |-> error]

NoAnalysis == NewAnalysis(<<>>, NoneText)

NoOutcome == Outcome("none", NoAnalysis, NoError)

Raise(e) == Outcome("error", NoAnalysis, e)

RetryOutcome == Outcome("retry", NoAnalysis, NoError)

\* the DrawingAnalysis constructor on analysis_dict, restricted to dimensions and material
Validate(v) ==
    IF v.t # "obj" THEN Raise(MappingError)
    ELSE LET dv == IF HasKey(v, "dimensions") THEN Lookup(v, "dimensions")
                   ELSE JV("arr", <<>>, <<>>)
             mv == IF HasKey(v, "material") THEN Lookup(v, "material") ELSE JNull
             dims == IF dv.t = "arr" THEN DimensionsOfJson(dv.items, 1, <<>>)
                     ELSE [ok |-> FALSE, dims |-> <<>>]
         IN IF dims.ok /\ mv.t \in {"str", "null"}
            THEN Outcome("analysis",
                         NewAnalysis(dims.dims,
                                     IF mv.t = "str" THEN mv.s ELSE NoneText),
                         NoError)
            ELSE Raise(SchemaError)

(***************************************************************************)
(* THE PARSER: what analyze_drawing_from_images does with a response       *)
(***************************************************************************)
\* a parser that retries whatever the retry flag says
AlwaysRetry(retry) == TRUE

\* "if not retry_with_concise"
ShouldRetry(retry) == ~retry

ParseResponse(text, retry) ==
    LET direct == JsonLoads(text) IN
    IF direct.ok THEN Validate(direct.val)
    ELSE LET repaired == RepairTruncatedJson(text) IN
         IF repaired.ok
         THEN IF JsonLoads(repaired.text).ok
              THEN Validate(JsonLoads(repaired.text).val)
              ELSE Raise(RepairParseError)
         ELSE IF ShouldRetry(retry) THEN RetryOutcome
         ELSE Raise(RetryParseError)

\* a timeout that lets the parser call the model again
TimeoutRetried == RetryOutcome

\* asyncio.TimeoutError in _call_gemini_with_timeout
TimeoutOutcome == Raise(TimedOutError)

(***************************************************************************)
(* OCR FALLBACK MERGER                                                     *)
(***************************************************************************)
\* settings.ocr_confidence_threshold = 0.7
OcrConfidenceThreshold == 70

\* round(c, 1) of the double h/100, in tenths (Python rounds the stored
\* double: 0.15, 0.25, 0.35, 0.85 and 0.95 go down, the other halves up)
Round1(h) ==
    IF h \in {15, 25, 35, 85, 95} THEN h \div 10 ELSE (h + 5) \div 10

\* tuple(round(c, 1) for c in bbox); iterating a BoundingBox object yields
\* (name, value) pairs and round() of a pair is a TypeError
RoundedKey(bbox) ==
    IF bbox.kind = "list"
    THEN [ok |-> TRUE, key |-> [i \in 1..Len(bbox.c) |-> Round1(bbox.c[i])]]
    ELSE [ok |-> FALSE, key |-> <<>>]

\* bool(d.get('bbox')): None and the empty list are false
BBoxTruthy(d) ==
    /\ "bbox" \in DOMAIN d
    /\ d["bbox"].kind # "none"
    /\ ~(d["bbox"].kind = "list" /\ d["bbox"].c = <<>>)

DictGet(d, k, default) == IF k \in DOMAIN d THEN d[k] ELSE default

\* ocr_by_position as the list of its (key, token index) items in insertion
\* order; assigning to a key that is present keeps its place.
TablePut(table, key, idx) ==
    IF \E i \in 1..Len(table) : table[i].key = key
    THEN [i \in 1..Len(table) |->
             IF table[i].key = key THEN [key |-> key, idx |-> idx] ELSE table[i]]
    ELSE Append(table, [key |-> key, idx |-> idx])

TableHas(table, key) == \E i \in 1..Len(table) : table[i].key = key

TableGet(table, key) ==
    table[CHOOSE i \in 1..Len(table) : table[i].key = key].idx

\* a table from which a used token is not removed
TableKeep(table, key) == table

TableDel(table, key) == SelectSeq(table, LAMBDA e : e.key # key)

RECURSIVE IndexOcr(_, _, _)
IndexOcr(ocr, i, table) ==
    IF i > Len(ocr) THEN [ok |-> TRUE, table |-> table]
    ELSE IF ~BBoxTruthy(ocr[i]) THEN IndexOcr(ocr, i + 1, table)
    ELSE LET k == RoundedKey(ocr[i]["bbox"]) IN
         IF ~k.ok THEN [ok |-> FALSE, table |-> table]
         ELSE IndexOcr(ocr, i + 1, TablePut(table, k.key, i))

MergeState(merged, src, recovered, table, ok) ==
    [merged |-> merged, src |-> src, recovered |-> recovered,
     table |-> table, ok |-> ok]

Override(d, upd) ==
    [k \in (DOMAIN d) \cup (DOMAIN upd) |->
        IF k \in DOMAIN upd THEN upd[k] ELSE d[k]]

\* a merger that adds nothing to an unmatched dimension
NoFlag == [f \in {} |-> TRUE]

\* the "low_confidence": True entry added to an unmatched dimension
LowConfidenceFlag == [f \in {"low_confidence"} |-> TRUE]

\* a strict comparison against the threshold
IsAboveThreshold(conf, thr) == conf > thr

\* the comparison that keeps a VLM dimension
IsHighConfidence(conf, thr) == conf >= thr

\* one pass of the loop over vlm_dimensions
MergeOne(st, d, ocr, thr) ==
    LET conf == DictGet(d, "confidence", 100) IN
    IF conf = NoneNum THEN [st EXCEPT !.ok = FALSE]   \* None >= float
    ELSE IF IsHighConfidence(conf, thr)
    THEN [st EXCEPT !.merged = Append(@, d), !.src = Append(@, 0)]
    ELSE IF BBoxTruthy(d)
    THEN LET k == RoundedKey(d["bbox"]) IN
         IF ~k.ok THEN [st EXCEPT !.ok = FALSE]
         ELSE IF TableHas(st.table, k.key)
         THEN LET idx == TableGet(st.table, k.key)
                  upd == [f \in {"value", "confidence", "source"} |->
                            CASE f = "value" -> ocr[idx]["value"]
                              [] f = "confidence" ->
                                   DictGet(ocr[idx], "confidence", 95)
                              [] OTHER -> "ocr_fallback"]
              IN MergeState(Append(st.merged, Override(d, upd)),
                            Append(st.src, idx), st.recovered + 1,
                            TableDel(st.table, k.key), TRUE)
         ELSE [st EXCEPT
                 !.merged = Append(@, Override(d, LowConfidenceFlag)),
                 !.src = Append(@, 0)]
    ELSE [st EXCEPT
            !.merged = Append(@, Override(d, LowConfidenceFlag)),
            !.src = Append(@, 0)]

RECURSIVE MergeLoop(_, _, _, _, _)
MergeLoop(st, vlm, i, ocr, thr) ==
    IF ~st.ok \/ i > Len(vlm) THEN st
    ELSE MergeLoop(MergeOne(st, vlm[i], ocr, thr), vlm, i + 1, ocr, thr)

OcrOnly(tok) ==
    [f \in {"value", "bbox", "confidence", "source", "unit"} |->
        CASE f = "value" -> tok["value"]
          [] f = "bbox" -> tok["bbox"]
          [] f = "confidence" -> DictGet(tok, "confidence", 90)
          [] f = "source" -> "ocr_only"
          [] OTHER -> "mm"]

\* a count that leaves the appended OCR-only records out
CountReplacedOnly(recovered, table) == recovered

\* "fields_recovered += 1" for each of ocr_by_position.values()
CountAppended(recovered, table) == recovered + Len(table)

\* DocumentAIService.merge_with_vlm_results.  src is a ghost: src[i] is the
\* index of the OCR token whose value record i carries (0: none).
MergeWithVlmResults(vlm, ocr, thr) ==
    LET unmerged == [merged |-> vlm, fields_recovered |-> 0,
                     src |-> [i \in 1..Len(vlm) |-> 0], raised |-> TRUE]
        ix == IndexOcr(ocr, 1, <<>>)
    IN IF ~ix.ok THEN unmerged
       ELSE LET st == MergeLoop(MergeState(<<>>, <<>>, 0, ix.table, TRUE),
                                vlm, 1, ocr, thr)
            IN IF ~st.ok THEN unmerged
               ELSE [merged |-> st.merged \o
                        [i \in 1..Len(st.table) |-> OcrOnly(ocr[st.table[i].idx])],
                     fields_recovered |-> CountAppended(st.recovered, st.table),
                     src |-> st.src \o
                        [i \in 1..Len(st.table) |-> st.table[i].idx],
                     raised |-> FALSE]

\* f"{d.value} {d.unit}" as the list of its blank-separated words
ValueText(d) == <<d.value, d.unit>>

\* the keyword arguments of the Dimension(...) call that rebuilds a record
RebuildKwargs(md, p) ==
    LET parts == md["value"] IN
    [f \in {"value", "unit", "tolerance", "bbox", "confidence", "page"} |->
        CASE f = "value" -> IF Len(parts) > 0 THEN parts[1] ELSE ""
          [] f = "unit" -> IF Len(parts) > 1 THEN parts[2]
                           ELSE DictGet(md, "unit", "mm")
          [] f = "tolerance" -> NoneText
          [] f = "bbox" -> DictGet(md, "bbox", NoBBox)
          [] f = "confidence" -> DictGet(md, "confidence", NoneNum)
          [] OTHER -> p]

\* the loop that appends the merged dimensions of page p to the analysis
RECURSIVE Rebuild(_, _, _, _)
Rebuild(dims, merged, i, p) ==
    IF i > Len(merged) THEN [ok |-> TRUE, dims |-> dims]
    ELSE LET nd == NewDimension(RebuildKwargs(merged[i], p)) IN
         IF ~nd.ok THEN [ok |-> FALSE, dims |-> dims]
         ELSE Rebuild(Append(dims, nd.obj), merged, i + 1, p)

FallbackResult(an, raised, ocrPages) ==
    [analysis |-> an, raised |-> raised, ocrPages |-> ocrPages]

VlmDict(d) ==
    [f \in {"value", "bbox", "confidence"} |->
        CASE f = "value" -> ValueText(d)
          [] f = "bbox" -> d.bbox
          [] OTHER -> d.confidence]

\* the "for page_idx, image in enumerate(images)" loop from page p on;
\* every exception is caught and the analysis object returned as it then is
RECURSIVE FallbackPages(_, _, _, _, _, _)
FallbackPages(an, low, p, nImages, oracle, ocrPages) ==
    IF p > nImages THEN FallbackResult(an, FALSE, ocrPages)
    ELSE IF \E i \in 1..Len(low) : ~HasAttr(low[i], "page")
    THEN FallbackResult(an, TRUE, ocrPages)
    ELSE IF SelectSeq(low, LAMBDA d : d.page = p) = <<>>
    THEN FallbackPages(an, low, p + 1, nImages, oracle, ocrPages)
    ELSE IF ~oracle[p].ok
    THEN FallbackResult(an, TRUE, ocrPages \cup {p})
    ELSE IF \E i \in 1..Len(an.dimensions) : ~HasAttr(an.dimensions[i], "page")
    THEN FallbackResult(an, TRUE, ocrPages \cup {p})
    ELSE
    LET onPage == SelectSeq(an.dimensions, LAMBDA d : d.page = p)
        m == MergeWithVlmResults([i \in 1..Len(onPage) |-> VlmDict(onPage[i])],
                                 oracle[p].tokens, OcrConfidenceThreshold)
    IN IF \E i \in 1..Len(m.merged) :
              DictGet(m.merged[i], "confidence", 0) = NoneNum
       THEN FallbackResult(an, TRUE, ocrPages \cup {p})   \* sum() over None
       ELSE LET kept == SelectSeq(an.dimensions, LAMBDA d : d.page # p)
                rb == Rebuild(kept, m.merged, 1, p)
                an2 == [an EXCEPT !.dimensions = rb.dims]
            IN IF ~rb.ok THEN FallbackResult(an2, TRUE, ocrPages \cup {p})
               ELSE FallbackPages(an2, low, p + 1, nImages, oracle,
                                  ocrPages \cup {p})

\* the low_confidence_dims filter: "d.confidence and d.confidence < threshold"
IsLowConfidence(d) ==
    d.confidence # NoneNum /\ d.confidence # 0
        /\ d.confidence < OcrConfidenceThreshold

\* DrawingAnalyzer.apply_ocr_fallback.  docAi: "ok", "off" (no processor
\* configured) or "error" (get_document_ai raises).  raised and ocrPages are
\* ghosts: whether an exception was caught, and the pages sent to OCR.
ApplyOcrFallback(an, nImages, docAi, oracle) ==
    IF docAi = "error" THEN FallbackResult(an, TRUE, {})
    ELSE IF docAi = "off" THEN FallbackResult(an, FALSE, {})
    ELSE LET low == SelectSeq(an.dimensions, IsLowConfidence) IN
         IF low = <<>> THEN FallbackResult(an, FALSE, {})
         ELSE FallbackPages(an, low, 1, nImages, oracle, {})

(***************************************************************************)
(* EXCEPTION REPORT SUMMARY                                                *)
(***************************************************************************)
Severities == {"critical", "warning", "info"}

CountSeverity(exceptions, sev) ==
    Cardinality({i \in 1..Len(exceptions) : exceptions[i].severity = sev})

\* a summary that lets fabrication proceed with one critical finding
CanProceedWithOne(critical) == critical <= 1

\* "can_proceed = critical == 0"
CanProceed(critical) == critical = 0

RiskLevel(critical, warning) ==
    IF critical > 0 THEN "high"
    ELSE IF warning > 3 THEN "medium"
    ELSE "low"

\* ExceptionEngine._generate_summary
GenerateSummary(exceptions) ==
    LET critical == CountSeverity(exceptions, "critical")
        warning == CountSeverity(exceptions, "warning")
        info == CountSeverity(exceptions, "info")
        cats == {exceptions[i].category : i \in 1..Len(exceptions)}
    IN [total_exceptions |-> Len(exceptions),
        critical_count |-> critical,
        warning_count |-> warning,
        info_count |-> info,
        exceptions_by_category |->
            [c \in cats |->
                Cardinality({i \in 1..Len(exceptions) : exceptions[i].category = c})],
        can_proceed |-> CanProceed(critical),
        overall_risk_level |-> RiskLevel(critical, warning)]

\* "requires_client_approval=summary.critical_count > 0"
RequiresClientApproval(summary) == summary.critical_count > 0

\* the positions of the findings of one severity, in finding order
OfSeverity(exceptions, sev) ==
    SelectSeq([i \in 1..Len(exceptions) |-> i], LAMBDA i : exceptions[i].severity = sev)

\* a line of the action list: its tag and the finding it renders (0: none)
ActionLine(tag, of) == [tag |-> tag, of |-> of]

\* "warnings[:6]"
TopSix(warnings) == SubSeq(warnings, 1, IF Len(warnings) < 6 THEN Len(warnings) ELSE 6)

\* "warnings[:5]"
TopWarnings(warnings) == SubSeq(warnings, 1, IF Len(warnings) < 5 THEN Len(warnings) ELSE 5)

\* ExceptionEngine._generate_action_items
GenerateActionItems(exceptions) ==
    LET critical == OfSeverity(exceptions, "critical")
        warnings == TopWarnings(OfSeverity(exceptions, "warning"))
    IN [k \in 1..Len(critical) |-> ActionLine("CRITICAL", critical[k])]
       \o [k \in 1..Len(warnings) |-> ActionLine("WARNING", warnings[k])]
       \o (IF Len(exceptions) > 0 THEN <<ActionLine("REVIEW", 0)>> ELSE <<>>)

\* the ExceptionReport that validate_analysis builds from its findings
BuildReport(exceptions) ==
    LET summary == GenerateSummary(exceptions) IN
    [summary |-> summary, exceptions |-> exceptions,
     action_items |-> GenerateActionItems(exceptions),
     requires_client_approval |-> RequiresClientApproval(summary)]

NoReport == BuildReport(<<>>)

(***************************************************************************)
(* STATE                                                                   *)
(***************************************************************************)
VARIABLES
    doc, cut, rpc, out,               \* _repair_truncated_json on a text
    dimsIn, ocrIn, mpc, mOut, fIn, fOut,  \* the merger and the OCR fallback
    findings, spc, sreport,           \* the report summary of a finding list
    record,       \* the analysis record in the database
    pc,           \* where process_drawing_analysis is
    nImages,      \* pages pdf_to_images returned
    retry,        \* retry_with_concise of the running parser call
    calls,        \* upstream model calls issued so far
    received,     \* what the upstream calls returned, in order
    parsed,       \* what analyze_drawing_from_images returned or raised
    cause,        \* why the run failed
    engineRuns,   \* validate_analysis calls
    reportRuns,   \* generate_both_reports calls
    report,       \* the exception report of the run
    ocrRaised,    \* apply_ocr_fallback caught an exception
    ruleIn, rule, ruleOut,    \* a rule of the engine on an analysis
    ruleReport    \* the report validate_analysis returned for it

repairVars == <<doc, cut, rpc, out>>

mergeVars == <<dimsIn, ocrIn, mpc, mOut, fIn, fOut>>

sumVars == <<findings, spc, sreport>>

pipeVars == <<record, pc, nImages, retry, calls, received, parsed, cause,
              engineRuns, reportRuns, report, ocrRaised>>

ruleVars == <<ruleIn, rule, ruleOut, ruleReport>>

vars == <<repairVars, mergeVars, sumVars, pipeVars, ruleVars>>

RepairIdle ==
    doc = <<>> /\ cut = 0 /\ rpc = "off" /\ out = NoText

SummaryIdle ==
    findings = <<>> /\ spc = "off" /\ sreport = NoReport

NoRecord == [exists |-> FALSE, status |-> "", urls |-> FALSE]

PipelineIdle ==
    /\ record = NoRecord /\ pc = "off" /\ nImages = 0 /\ retry = FALSE
    /\ calls = 0 /\ received = <<>> /\ parsed = NoOutcome /\ cause = ""
    /\ engineRuns = 0 /\ reportRuns = 0 /\ report = NoReport
    /\ ocrRaised = FALSE

\* the part of a DrawingAnalysis the rules read; variation_ratio stands for
\* wall_thickness.variation_ratio
RuleAnalysis(dims, material, undercuts, ratio) ==
    [dimensions |-> dims, material |-> material, undercuts |-> undercuts,
     variation_ratio |-> ratio, notes |-> <<>>, gdandt |-> <<>>,
     surface_finishes |-> <<>>, parting_line_suggestions |-> <<>>,
     gating_points |-> <<>>]

RulesIdle ==
    /\ ruleIn = RuleAnalysis(<<>>, NoneText, <<>>, NoneNum)
    /\ rule = "off" /\ ruleOut = <<>> /\ ruleReport = NoReport

(***************************************************************************)
(* The merger and apply_ocr_fallback on bounded inputs                     *)
(***************************************************************************)
MaxVlm == 2

MaxOcr == 2

MaxPages == 2

B1 == <<12, 13, 30, 30>>

B2 == <<13, 12, 31, 29>>

B3 == <<52, 50, 70, 70>>

\* keyword arguments of a dimension as the response carries them (the
\* prompts ask for a page with every dimension)
DimKw(conf, bbox, page) ==
    [f \in {"feature", "value", "unit", "tolerance", "bbox", "confidence", "page"} |->
        CASE f = "feature" -> <<"rib">>
          [] f = "value" -> "0.4"
          [] f = "unit" -> "mm"
          [] f = "tolerance" -> <<"+-0.02">>
          [] f = "bbox" -> bbox
          [] f = "confidence" -> conf
          [] OTHER -> page]

WithoutKey(d, k) == [f \in (DOMAIN d) \ {k} |-> d[f]]

DimChoices ==
    { DimKw(70, BBox("model", B1), 1),
      DimKw(50, BBox("model", B1), 1),
      DimKw(50, BBox("model", B2), 2),
      DimKw(50, NoBBox, 1),
      DimKw(0, BBox("model", B3), 2),
      DimKw(NoneNum, BBox("model", B1), 1),
      WithoutKey(DimKw(90, BBox("model", B3), 1), "confidence") }

OcrToken(value, bbox, conf) ==
    [f \in {"value", "bbox", "confidence"} |->
        CASE f = "value" -> value
          [] f = "bbox" -> bbox
          [] OTHER -> conf]

OcrChoices ==
    { OcrToken(<<"10.5mm">>, BBox("list", <<12, 12, 30, 30>>), 95),
      OcrToken(<<"0.75+-0.01">>, BBox("list", <<14, 14, 31, 31>>), 80),
      OcrToken(<<"R5">>, BBox("list", B3), NoneNum),
      OcrToken(<<"10x20">>, NoBBox, 90) }

SeqsUpTo(S, n) == UNION {[1..k -> S] : k \in 0..n}

\* the dict handed to the merger for a dimension: its bbox as a plain list,
\* or (asModel) as the BoundingBox object itself
DictView(kw, asModel) ==
    IF "bbox" \in DOMAIN kw /\ kw["bbox"].kind = "model" /\ ~asModel
    THEN [kw EXCEPT !["bbox"] = BBox("list", @.c)]
    ELSE kw

AnalysisOf(kws) ==
    NewAnalysis([i \in 1..Len(kws) |-> NewDimension(kws[i]).obj], NoneText)

NoMerge == [merged |-> <<>>, fields_recovered |-> 0, src |-> <<>>, raised |-> FALSE]

NoFallbackIn == [analysis |-> NewAnalysis(<<>>, NoneText), nImages |-> 0,
                 docAi |-> "off", ocrOk |-> FALSE, vlm |-> <<>>]

NoFallback == FallbackResult(NewAnalysis(<<>>, NoneText), FALSE, {})

MergeIdle ==
    /\ dimsIn = <<>> /\ ocrIn = <<>> /\ mpc = "off"
    /\ mOut = NoMerge /\ fIn = NoFallbackIn /\ fOut = NoFallback

InitMerge ==
    /\ RepairIdle /\ SummaryIdle /\ PipelineIdle /\ RulesIdle
    /\ dimsIn \in SeqsUpTo(DimChoices, MaxVlm)
    /\ ocrIn \in SeqsUpTo(OcrChoices, MaxOcr)
    /\ mpc = "input"
    /\ mOut = NoMerge /\ fIn = NoFallbackIn /\ fOut = NoFallback

\* a call of merge_with_vlm_results
Merge(asModel) ==
    /\ mpc = "input"
    /\ LET vlm == [i \in 1..Len(dimsIn) |-> DictView(dimsIn[i], asModel)] IN
       /\ mOut' = MergeWithVlmResults(vlm, ocrIn, OcrConfidenceThreshold)
       /\ fIn' = [fIn EXCEPT !.vlm = vlm]
    /\ mpc' = "merged"
    /\ UNCHANGED <<dimsIn, ocrIn, fOut, repairVars, sumVars, pipeVars, ruleVars>>

\* a call of apply_ocr_fallback; OCR of a page returns ocrIn or fails
Fallback(n, docAi, ocrOk) ==
    /\ mpc = "input"
    /\ LET an == AnalysisOf(dimsIn)
           oracle == [p \in 1..n |-> [ok |-> ocrOk, tokens |-> ocrIn]]
       IN /\ fIn' = [analysis |-> an, nImages |-> n, docAi |-> docAi,
                     ocrOk |-> ocrOk, vlm |-> <<>>]
          /\ fOut' = ApplyOcrFallback(an, n, docAi, oracle)
    /\ mpc' = "fellback"
    /\ UNCHANGED <<dimsIn, ocrIn, mOut, repairVars, sumVars, pipeVars, ruleVars>>

NextMerge ==
    \/ \E asModel \in BOOLEAN : Merge(asModel)
    \/ \E n \in 0..MaxPages, docAi \in {"ok", "off", "error"}, ocrOk \in BOOLEAN :
          Fallback(n, docAi, ocrOk)

SpecMerge == InitMerge /\ [][NextMerge]_vars

(***************************************************************************)
(* _repair_truncated_json on every truncation of the response documents    *)
(***************************************************************************)
InitRepair ==
    /\ MergeIdle /\ SummaryIdle /\ PipelineIdle /\ RulesIdle
    /\ doc \in Docs
    /\ cut \in 0..Len(doc)
    /\ rpc = "input"
    /\ out = NoText

Repair ==
    /\ rpc = "input"
    /\ out' = RepairTruncatedJson(Prefix(doc, cut))
    /\ rpc' = "done"
    /\ UNCHANGED <<doc, cut, mergeVars, sumVars, pipeVars, ruleVars>>

NextRepair == Repair

SpecRepair == InitRepair /\ [][NextRepair]_vars

(***************************************************************************)
(* The report summary on bounded finding lists                             *)
(***************************************************************************)
MaxFindings == 4

FindingChoices ==
    [severity : Severities, category : {"wall_thickness", "draft_angle"}]

MaxLongFindings == 7

\* longer finding lists of one category, for the limit of the action list
LongFindingLists ==
    SeqsUpTo([severity : Severities, category : {"wall_thickness"}], MaxLongFindings)

InitSummary ==
    /\ RepairIdle /\ MergeIdle /\ PipelineIdle /\ RulesIdle
    /\ findings \in SeqsUpTo(FindingChoices, MaxFindings) \cup LongFindingLists
    /\ spc = "input"
    /\ sreport = NoReport

Summarize ==
    /\ spc = "input"
    /\ sreport' = BuildReport(findings)
    /\ spc' = "done"
    /\ UNCHANGED <<findings, repairVars, mergeVars, pipeVars, ruleVars>>

NextSummary == Summarize

SpecSummary == InitSummary /\ [][NextSummary]_vars

(***************************************************************************)
(* THE PIPELINE: process_drawing_analysis for one uploaded drawing, with   *)
(* the delete endpoint running beside it.  An action is the code between   *)
(* two awaits or two steps of the pipeline.                                *)
(***************************************************************************)
PENDING == "pending"

PROCESSING == "processing"

COMPLETED == "completed"

FAILED == "failed"

\* a handler that leaves the record in PROCESSING
HandlerLeavesProcessing == PROCESSING

\* AnalysisStatus.FAILED, written by the pipeline's exception handler
HandlerStatus == FAILED

\* settings.enable_document_ai_fallback
EnableDocumentAiFallback == TRUE

MaxReportFindings == 1

\* what the upstream model may answer
Responses ==
    {SpecDoc(<<"rib">>, n, st) : n \in 0..MaxDims, st \in Styles}
    \cup {Prefix(SpecDoc(<<"rib">>, 1, st), Len(SpecDoc(<<"rib">>, 1, st)) - 1) :
              st \in Styles}
    \cup {DanglingArrayText(st) : st \in Styles}
    \cup {ArrayValueDoc(st) : st \in Styles}
    \cup {MissingValueDoc(st) : st \in Styles}
    \cup {LowConfidenceDoc(st) : st \in Styles}
    \cup {<<"{", "}">>, <<"[", "]">>, <<"{", Q, "dimensions">>}

TextResponse(text) == [kind |-> "text", text |-> text]

TimeoutResponse == [kind |-> "timeout", text |-> <<>>]

ErrorResponse == [kind |-> "error", text |-> <<>>]

\* why a response ends the parser in an error: no JSON value could be read
\* from it (truncated) or the value read does not fit the schema (malformed)
FailureCause(text) ==
    IF JsonLoads(text).ok \/ RepairTruncatedJson(text).ok
    THEN "malformed" ELSE "truncated"

InitPipeline ==
    /\ RepairIdle /\ MergeIdle /\ SummaryIdle /\ RulesIdle
    /\ record = [exists |-> TRUE, status |-> PENDING, urls |-> FALSE]
    /\ pc = "pending" /\ nImages = 0 /\ retry = FALSE
    /\ calls = 0 /\ received = <<>> /\ parsed = NoOutcome /\ cause = ""
    /\ engineRuns = 0 /\ reportRuns = 0 /\ report = NoReport
    /\ ocrRaised = FALSE

\* the "except Exception" handler of process_drawing_analysis
Fail(why) ==
    /\ record' = IF record.exists THEN [record EXCEPT !.status = HandlerStatus]
                  ELSE record
    /\ pc' = "failed"
    /\ cause' = why

\* the task starts: the record goes to PROCESSING, process_drawing is awaited
StartPipeline ==
    /\ pc = "pending"
    /\ record' = IF record.exists THEN [record EXCEPT !.status = PROCESSING]
                  ELSE record
    /\ pc' = "process_drawing"
    /\ UNCHANGED <<nImages, retry, calls, received, parsed, cause, engineRuns, ocrRaised,
                   reportRuns, report, repairVars, mergeVars, sumVars, ruleVars>>

\* process_drawing returns; analyze_drawing_from_pdf awaits pdf_to_images
ProcessDrawingReturns ==
    /\ pc = "process_drawing"
    /\ pc' = "pdf_to_images"
    /\ UNCHANGED <<record, nImages, retry, calls, received, parsed, cause,
                   engineRuns, ocrRaised, reportRuns, report, repairVars, mergeVars, sumVars, ruleVars>>

ProcessDrawingRaises ==
    /\ pc = "process_drawing"
    /\ Fail("process_drawing")
    /\ UNCHANGED <<nImages, retry, calls, received, parsed, engineRuns, ocrRaised,
                   reportRuns, report, repairVars, mergeVars, sumVars, ruleVars>>

\* pdf_to_images returns n pages; the first upstream call is issued
PdfToImagesReturns(n) ==
    /\ pc = "pdf_to_images"
    /\ nImages' = n
    /\ calls' = calls + 1
    /\ pc' = "call"
    /\ UNCHANGED <<record, retry, received, parsed, cause, engineRuns, ocrRaised,
                   reportRuns, report, repairVars, mergeVars, sumVars, ruleVars>>

PdfToImagesRaises ==
    /\ pc = "pdf_to_images"
    /\ Fail("pdf_to_images")
    /\ UNCHANGED <<nImages, retry, calls, received, parsed, engineRuns, ocrRaised,
                   reportRuns, report, repairVars, mergeVars, sumVars, ruleVars>>

\* what the parser does with the outcome o of an upstream call: return the
\* analysis, call again with the concise prompt, or raise into the handler
Continue(o, why) ==
    CASE o.kind = "analysis" ->
            /\ parsed' = o
            /\ pc' = IF EnableDocumentAiFallback THEN "fallback" ELSE "engine"
            /\ UNCHANGED <<record, retry, calls, cause>>
      [] o.kind = "retry" ->
            /\ retry' = TRUE
            /\ calls' = calls + 1
            /\ UNCHANGED <<record, pc, parsed, cause>>
      [] OTHER ->
            /\ parsed' = o
            /\ Fail(why)
            /\ UNCHANGED <<retry, calls>>

\* the upstream call returns a text
GeminiResponds(text) ==
    /\ pc = "call"
    /\ received' = Append(received, TextResponse(text))
    /\ Continue(ParseResponse(text, retry), FailureCause(text))
    /\ UNCHANGED <<nImages, engineRuns, ocrRaised, reportRuns, report, repairVars,
                   mergeVars, sumVars, ruleVars>>

\* the upstream call misses its deadline
GeminiTimesOut ==
    /\ pc = "call"
    /\ received' = Append(received, TimeoutResponse)
    /\ Continue(TimeoutOutcome, "timeout")
    /\ UNCHANGED <<nImages, engineRuns, ocrRaised, reportRuns, report, repairVars,
                   mergeVars, sumVars, ruleVars>>

\* the upstream call raises something else
GeminiRaises ==
    /\ pc = "call"
    /\ received' = Append(received, ErrorResponse)
    /\ Continue(Raise(UpstreamError), "upstream")
    /\ UNCHANGED <<nImages, engineRuns, ocrRaised, reportRuns, report, repairVars,
                   mergeVars, sumVars, ruleVars>>

\* an apply_ocr_fallback whose except clause raises the error again
FallbackReraises(res) == res.raised

\* the "except Exception" clause of apply_ocr_fallback logs the error and
\* returns the analysis: nothing propagates to analyze_drawing_from_pdf
FallbackPropagates(res) == FALSE

\* apply_ocr_fallback on the analysis the parser returned.  ocrRaised is a
\* ghost: "ocr_fallback_failed" was logged
OcrFallback(docAi, ocrOk, tokens) ==
    /\ pc = "fallback"
    /\ LET oracle == [p \in 1..nImages |-> [ok |-> ocrOk, tokens |-> tokens]]
           res == ApplyOcrFallback(parsed.analysis, nImages, docAi, oracle)
       IN /\ ocrRaised' = res.raised
          /\ IF FallbackPropagates(res)
             THEN Fail("ocr_fallback") /\ UNCHANGED parsed
             ELSE /\ parsed' = [parsed EXCEPT !.analysis = res.analysis]
                  /\ pc' = "engine"
                  /\ UNCHANGED <<record, cause>>
    /\ UNCHANGED <<nImages, retry, calls, received, engineRuns,
                   reportRuns, report, repairVars, mergeVars, sumVars, ruleVars>>

\* validate_analysis returns its report; generate_both_reports is awaited
RunEngine(found) ==
    /\ pc = "engine"
    /\ engineRuns' = engineRuns + 1
    /\ report' = BuildReport(found)
    /\ reportRuns' = reportRuns + 1
    /\ pc' = "reports"
    /\ UNCHANGED <<ocrRaised, record, nImages, retry, calls, received, parsed, cause,
                   repairVars, mergeVars, sumVars, ruleVars>>

\* the reports are written; the record is saved COMPLETED with their URLs
ReportsGenerated ==
    /\ pc = "reports"
    /\ record' = IF record.exists
                  THEN [record EXCEPT !.status = COMPLETED, !.urls = TRUE]
                  ELSE record
    /\ pc' = "metrics"
    /\ UNCHANGED <<nImages, retry, calls, received, parsed, cause, engineRuns, ocrRaised,
                   reportRuns, report, repairVars, mergeVars, sumVars, ruleVars>>

ReportsRaise ==
    /\ pc = "reports"
    /\ Fail("reports")
    /\ UNCHANGED <<nImages, retry, calls, received, parsed, engineRuns, ocrRaised,
                   reportRuns, report, repairVars, mergeVars, sumVars, ruleVars>>

\* step 6: the metrics read summary.high_count, medium_count and low_count
TrackMetrics ==
    /\ pc = "metrics"
    /\ IF {"high_count", "medium_count", "low_count"} \subseteq DOMAIN report.summary
       THEN pc' = "done" /\ UNCHANGED <<record, cause>>
       ELSE Fail("metrics")
    /\ UNCHANGED <<nImages, retry, calls, received, parsed, engineRuns, ocrRaised,
                   reportRuns, report, repairVars, mergeVars, sumVars, ruleVars>>

\* DELETE /{analysis_id}
DeleteAnalysis ==
    /\ pc # "off"
    /\ record.exists
    /\ record' = NoRecord
    /\ UNCHANGED <<pc, nImages, retry, calls, received, parsed, cause,
                   engineRuns, ocrRaised, reportRuns, report, repairVars, mergeVars, sumVars, ruleVars>>

Next ==
    \/ StartPipeline
    \/ ProcessDrawingReturns
    \/ ProcessDrawingRaises
    \/ \E n \in 1..MaxPages : PdfToImagesReturns(n)
    \/ PdfToImagesRaises
    \/ \E text \in Responses : GeminiResponds(text)
    \/ GeminiTimesOut
    \/ GeminiRaises
    \/ \E docAi \in {"ok", "off", "error"}, ocrOk \in BOOLEAN,
          tokens \in SeqsUpTo(OcrChoices, MaxOcr) :
              OcrFallback(docAi, ocrOk, tokens)
    \/ \E found \in SeqsUpTo(FindingChoices, MaxReportFindings) :
          RunEngine(found)
    \/ ReportsGenerated
    \/ ReportsRaise
    \/ TrackMetrics
    \/ DeleteAnalysis

Init == InitPipeline

Spec == Init /\ [][Next]_vars

(***************************************************************************)
(* THE RULE ENGINE: the checks of ExceptionEngine on a DrawingAnalysis.    *)
(* A dimension value is in hundredths, the number of a tolerance string in *)
(* thousandths, a probability in hundredths.                               *)
(***************************************************************************)
\* str.lower() of a text, atom by atom
LowerAtom(a) ==
    CASE a = "Wall" -> "wall"
      [] a = "WALL" -> "wall"
      [] a = "Thickness" -> "thickness"
      [] a = "Lifter" -> "lifter"
      [] a = "SLIDE" -> "slide"
      [] a = "Draft" -> "draft"
      [] a = "Complex" -> "complex"
      [] a = "Hot" -> "hot"
      [] a = "Runner" -> "runner"
      [] a = "Mirror" -> "mirror"
      [] a = "Width" -> "width"
      [] OTHER -> a

Lower(text) == [i \in 1..Len(text) |-> LowerAtom(text[i])]

\* str.upper() of a text, atom by atom
UpperAtom(a) ==
    CASE a = "pp" -> "PP"
      [] a = "abs" -> "ABS"
      [] OTHER -> a

Upper(text) == [i \in 1..Len(text) |-> UpperAtom(text[i])]

\* "part in text" of two strings
IsIn(part, text) ==
    \E i \in 0..(Len(text) - Len(part)) :
        \A j \in 1..Len(part) : text[i + j] = part[j]

\* any(keyword in text.lower() for keyword in keywords)
AnyKeywordIn(keywords, text) == \E k \in keywords : IsIn(<<k>>, Lower(text))

\* a MoldingException.  value_mm is the converted number its title and
\* description show (NoneNum: none); subject is a ghost: the position, in
\* the list the rule walks, of the dimension or undercut the finding is
\* about (0: none)
MoldingException(severity, category, reference, defect, prob, value_mm, subject) ==
    [severity |-> severity, category |-> category, reference |-> reference,
     defect_risk |-> defect, probability_score |-> prob,
     value_mm |-> value_mm, subject |-> subject]

NoDefect == "<None>"

\* "x if dim.unit == "mm" else x * 25.4"; the result counts 1/1000 of the
\* unit x counts (x in hundredths: 1/100000 mm)
ToMm(x, unit) == IF unit = "mm" THEN x * 1000 ELSE x * 25400

\* "value_mm < 0.6", value_mm in 1/100000 mm
BelowMinimum(value_mm) == value_mm < 60 * 1000

\* "value_mm > 4.0"
AboveMaximum(value_mm) == value_mm > 400 * 1000

\* ExceptionEngine._check_wall_thickness; the findings of the dimensions
\* from position i on
RECURSIVE CheckWallFrom(_, _)
CheckWallFrom(dims, i) ==
    IF i > Len(dims) THEN <<>>
    ELSE LET dim == dims[i]
             value_mm == ToMm(dim.value, dim.unit)
             rest == CheckWallFrom(dims, i + 1)
         IN IF ~AnyKeywordIn({"wall", "thickness", "rib"}, dim.feature)
            THEN rest
            ELSE IF BelowMinimum(value_mm)
            THEN <<MoldingException("critical", "wall_thickness", "WT001",
                                    "short_shot", 90, value_mm, i)>> \o rest
            ELSE IF AboveMaximum(value_mm)
            THEN <<MoldingException("warning", "wall_thickness", "WT002",
                                    "sink_mark", 70, value_mm, i)>> \o rest
            ELSE rest

CheckWallThickness(analysis) == CheckWallFrom(analysis.dimensions, 1)

\* the numerals a tolerance string may hold, in thousandths
ToleranceNumerals == {"0.02", "0.05", "0.002", "0.001", "0.1"}

Thousandths(numeral) ==
    CASE numeral = "0.02" -> 20
      [] numeral = "0.05" -> 50
      [] numeral = "0.002" -> 2
      [] numeral = "0.001" -> 1
      [] OTHER -> 100

\* tolerance.replace("±", "").replace(" ", "")
StripTolerance(text) == SelectSeq(text, LAMBDA a : a \notin {"±", " "})

\* float(s): ok exactly when the text is one numeral
Float(text) ==
    IF Len(text) = 1 /\ text[1] \in ToleranceNumerals
    THEN [ok |-> TRUE, value |-> Thousandths(text[1])]
    ELSE [ok |-> FALSE, value |-> 0]

\* "tolerance_mm < 0.05", tolerance_mm in 1/1000000 mm
TooTight(tolerance_mm) == tolerance_mm < 50 * 1000

\* ExceptionEngine._check_dimensions_tolerance from position i on
RECURSIVE CheckToleranceFrom(_, _)
CheckToleranceFrom(dims, i) ==
    IF i > Len(dims) THEN <<>>
    ELSE LET dim == dims[i]
             rest == CheckToleranceFrom(dims, i + 1)
         IN IF dim.tolerance = NoneText \/ dim.tolerance = <<>> THEN rest
            ELSE LET f == Float(StripTolerance(dim.tolerance)) IN
                 IF ~f.ok THEN rest      \* ValueError: logged, skipped
                 ELSE IF TooTight(ToMm(f.value, dim.unit))
                 THEN <<MoldingException("critical", "dimension", "TOL001",
                                         NoDefect, 85,
                                         ToMm(f.value, dim.unit), i)>> \o rest
                 ELSE rest

CheckDimensionsTolerance(analysis) == CheckToleranceFrom(analysis.dimensions, 1)

\* the severity of an undercut by its requires_action text
UndercutSeverity(requires_action) ==
    IF IsIn(<<"slide">>, Lower(requires_action))
          \/ IsIn(<<"lifter">>, Lower(requires_action))
    THEN "critical" ELSE "warning"

\* an engine that asks for the undercut review from 10 dimensions on
ComplexFromTen(n) == n >= 10

\* "len(analysis.dimensions) > 10"
IsComplex(n) == n > 10

\* ExceptionEngine._check_undercuts
CheckUndercuts(analysis) ==
    [i \in 1..Len(analysis.undercuts) |->
        LET severity == UndercutSeverity(analysis.undercuts[i].requires_action)
        IN MoldingException(severity, "undercut", "UC001", "ejection_issue",
                            IF severity = "critical" THEN 80 ELSE 50,
                            NoneNum, i)]
    \o (IF analysis.undercuts = <<>> /\ IsComplex(Len(analysis.dimensions))
        THEN <<MoldingException("info", "undercut", "undercut verification",
                                NoDefect, NoneNum, NoneNum, 0)>>
        ELSE <<>>)

\* shrinkage_data, in the order of the dict
ShrinkageData ==
    << [key |-> <<"PP">>, risk |-> "high"],
       [key |-> <<"PP", "+GF">>, risk |-> "medium"],
       [key |-> <<"ABS">>, risk |-> "low"],
       [key |-> <<"PC">>, risk |-> "low"],
       [key |-> <<"PA6">>, risk |-> "high"],
       [key |-> <<"PA6", "+GF">>, risk |-> "low"],
       [key |-> <<"POM">>, risk |-> "high"] >>

\* "mat_key in material or material in mat_key"
MaterialMatches(mat_key, material) ==
    IsIn(mat_key, material) \/ IsIn(material, mat_key)

\* the positions of the table entries that match, the loop stops at the first
Matching(material) ==
    {i \in 1..Len(ShrinkageData) : MaterialMatches(ShrinkageData[i].key, material)}

IsHighRisk(risk) == risk = "high"

\* ExceptionEngine._check_shrinkage_warpage; variation_ratio is the ratio of
\* analysis.wall_thickness in tenths, NoneNum without wall_thickness or ratio
CheckShrinkageWarpage(analysis) ==
    IF analysis.material = NoneText \/ analysis.material = <<>> THEN <<>>
    ELSE
    LET material == Upper(analysis.material)
        hits == Matching(material)
        first == CHOOSE i \in hits : \A j \in hits : i <= j
    IN (IF hits # {} /\ IsHighRisk(ShrinkageData[first].risk)
        THEN <<MoldingException("warning", "shrinkage_warpage", "SW001",
                                "warp", 60, NoneNum, 0)>>
        ELSE <<>>)
       \o (IF analysis.variation_ratio # NoneNum /\ analysis.variation_ratio # 0
              /\ analysis.variation_ratio > 20
           THEN <<MoldingException("warning", "shrinkage_warpage", "SW002",
                                   "warp", 70, NoneNum, 0)>>
           ELSE <<>>)

\* ExceptionEngine._check_draft_angles: a WARNING unless a note mentions draft
CheckDraftAngles(analysis) ==
    IF \E i \in 1..Len(analysis.notes) : IsIn(<<"draft">>, Lower(analysis.notes[i]))
    THEN <<>>
    ELSE <<MoldingException("warning", "draft_angle", "DA001", NoDefect,
                            NoneNum, NoneNum, 0)>>

\* the first numeral of the value only
FirstNumeral(text) ==
    LET numerals == SelectSeq(text, LAMBDA a : a \in ToleranceNumerals)
    IN IF numerals = <<>> THEN <<>> ELSE <<numerals[1]>>

\* ''.join(c for c in value if c.isdigit() or c == '.'), atom by atom
DigitsAndDots(text) == SelectSeq(text, LAMBDA a : a \in ToleranceNumerals)

\* "tolerance_val < 0.05", tolerance_val in thousandths
IsTight(tolerance_val) == tolerance_val < 50

\* ExceptionEngine._check_gdandt_specs from position i on
RECURSIVE CheckGdandtFrom(_, _)
CheckGdandtFrom(gdandt, i) ==
    IF i > Len(gdandt) THEN <<>>
    ELSE LET value_str == DigitsAndDots(gdandt[i].value)
             rest == CheckGdandtFrom(gdandt, i + 1)
         IN IF value_str = <<>> THEN rest
            ELSE LET f == Float(value_str) IN
                 IF ~f.ok THEN rest      \* ValueError: logged, skipped
                 ELSE IF IsTight(f.value)
                 THEN <<MoldingException("critical", "gdandt", "GD&T capabilities",
                                         NoDefect, NoneNum, NoneNum, i)>> \o rest
                 ELSE rest

CheckGdandtSpecs(analysis) == CheckGdandtFrom(analysis.gdandt, 1)

\* ExceptionEngine._check_surface_finish
CheckSurfaceFinish(analysis) ==
    LET fine == SelectSeq([i \in 1..Len(analysis.surface_finishes) |-> i],
                    LAMBDA i : \E k \in {"mirror", "polish", "0.1", "0.2"} :
                        IsIn(<<k>>, Lower(analysis.surface_finishes[i].value)))
    IN [k \in 1..Len(fine) |->
           MoldingException("info", "surface_finish", "surface finish", NoDefect,
                            NoneNum, NoneNum, fine[k])]

\* "d.value > 100", the value in hundredths
IsLarge(dim) == dim.value > 10000

\* "analysis.material" as a condition: neither None nor empty
HasMaterial(analysis) == analysis.material # NoneText /\ analysis.material # <<>>

\* ExceptionEngine._check_defect_risks
CheckDefectRisks(analysis) ==
    IF (\E i \in 1..Len(analysis.dimensions) : IsLarge(analysis.dimensions[i]))
          /\ HasMaterial(analysis)
    THEN <<MoldingException("warning", "molding_defect_risk", "Gen6", "warp",
                            60, NoneNum, 0)>>
    ELSE <<>>

\* ExceptionEngine._check_material_compatibility
CheckMaterialCompatibility(analysis) ==
    IF HasMaterial(analysis) THEN <<>>
    ELSE <<MoldingException("warning", "material", "material specification",
                            NoDefect, NoneNum, NoneNum, 0)>>

\* ExceptionEngine._check_parting_line
CheckPartingLine(analysis) ==
    LET pls == analysis.parting_line_suggestions
        complex == SelectSeq([i \in 1..Len(pls) |-> i],
                       LAMBDA i : /\ pls[i].complexity # NoneText
                                  /\ pls[i].complexity # <<>>
                                  /\ Lower(pls[i].complexity) = <<"complex">>)
    IN IF pls = <<>>
       THEN <<MoldingException("info", "parting_line", "parting line specification",
                               NoDefect, NoneNum, NoneNum, 0)>>
       ELSE [k \in 1..Len(complex) |->
                MoldingException("warning", "parting_line", "PL001", NoDefect,
                                 NoneNum, NoneNum, complex[k])]

\* ExceptionEngine._check_gating
CheckGating(analysis) ==
    LET gates == analysis.gating_points
        hot == SelectSeq([i \in 1..Len(gates) |-> i],
                   LAMBDA i : /\ gates[i].gate_type # NoneText
                              /\ gates[i].gate_type # <<>>
                              /\ IsIn(<<"hot", " ", "runner">>, Lower(gates[i].gate_type)))
    IN IF gates = <<>>
       THEN <<MoldingException("info", "gating", "gate location", NoDefect,
                               NoneNum, NoneNum, 0)>>
       ELSE [k \in 1..Len(hot) |->
                MoldingException("info", "gating", "GT001", NoDefect,
                                 NoneNum, NoneNum, hot[k])]

\* the dimensions the press rule looks at, as positions in the list
OverallDims(dims) ==
    SelectSeq([i \in 1..Len(dims) |-> i],
        LAMBDA i : AnyKeywordIn({"overall", "length", "width", "height", "diameter"},
                                dims[i].feature))

\* val_mm of the press rule in tenths of a millimetre (the values the rule
\* is given here are multiples of 0.5, whose millimetres are whole tenths)
ValMm(dim) == ToMm(dim.value, dim.unit) \div 10000

\* dim_values_mm[0] and dim_values_mm[1]: the first two of overall_dims[:3]
FirstTwo(dims, overall) ==
    <<ValMm(dims[overall[1]]), ValMm(dims[overall[2]])>>

\* "estimated_tonnage_min > 150" for the two values a and b, in tenths of
\* mm: 2 * (a * b / 100 / 6.45) > 150 is a * b > 48375 square millimetres
ExceedsPress(a, b) == a * b > 48375 * 100

\* ExceptionEngine._check_press_capabilities
CheckPressCapabilities(analysis) ==
    LET overall == OverallDims(analysis.dimensions) IN
    IF Len(overall) >= 2
    THEN LET v == FirstTwo(analysis.dimensions, overall) IN
         IF ExceedsPress(v[1], v[2])
         THEN <<MoldingException("critical", "press_capability", "PC001",
                                 NoDefect, NoneNum, NoneNum, 0)>>
         ELSE <<>>
    ELSE <<>>

\* the checks with the five newer ones run first
NewerChecksFirst(analysis) ==
    CheckUndercuts(analysis) \o CheckPartingLine(analysis) \o CheckGating(analysis)
        \o CheckShrinkageWarpage(analysis) \o CheckPressCapabilities(analysis)
        \o CheckWallThickness(analysis) \o CheckDimensionsTolerance(analysis)
        \o CheckDraftAngles(analysis) \o CheckGdandtSpecs(analysis)
        \o CheckSurfaceFinish(analysis) \o CheckDefectRisks(analysis)
        \o CheckMaterialCompatibility(analysis)

\* the order in which validate_analysis runs its checks
AllFindings(analysis) ==
    CheckWallThickness(analysis) \o CheckDimensionsTolerance(analysis)
        \o CheckDraftAngles(analysis) \o CheckGdandtSpecs(analysis)
        \o CheckSurfaceFinish(analysis) \o CheckDefectRisks(analysis)
        \o CheckMaterialCompatibility(analysis) \o CheckUndercuts(analysis)
        \o CheckPartingLine(analysis) \o CheckGating(analysis)
        \o CheckShrinkageWarpage(analysis) \o CheckPressCapabilities(analysis)

(***************************************************************************)
(* The rules on bounded analyses                                           *)
(***************************************************************************)
MaxRuleDims == 2

MaxUndercuts == 2

MaxFillers == 12

WallRib == <<"wall", " ", "thickness", " ", "-", " ", "rib">>

UpperWall == <<"WALL">>

Distribution == <<"hole", " ", "dist", "rib", "ution">>

OverallLength == <<"overall", " ", "length">>

RuleDim(feature, value, unit, tolerance) ==
    [feature |-> feature, value |-> value, unit |-> unit,
     tolerance |-> tolerance, bbox |-> NoBBox, confidence |-> NoneNum]

PlusMinus(numeral) == <<"±", numeral>>

RuleTolerances ==
    {PlusMinus("0.02"), PlusMinus("0.05"), PlusMinus("0.002"),
     <<"±", " ", "0.001">>, <<"0.02">>, <<"+", "0.1", "/", "-", "0.0">>, <<>>}

\* dimensions around the limits of the wall rule and of the tolerance rule
RuleDimChoices ==
    {RuleDim(WallRib, v, u, NoneText) : v \in {5, 20, 40, 60, 400, 410}, u \in Units}
    \cup {RuleDim(f, 40, "mm", NoneText) : f \in {UpperWall, Distribution, OverallLength}}
    \cup {RuleDim(OverallLength, 3, u, t) : u \in Units, t \in RuleTolerances}
    \cup {RuleDim(WallRib, 40, "mm", PlusMinus("0.02"))}

Filler == RuleDim(OverallLength, 1000, "mm", NoneText)

Undercut(requires_action) == [requires_action |-> requires_action]

UndercutChoices ==
    {Undercut(<<"side", " ", "action">>), Undercut(<<"slide">>),
     Undercut(<<"hand", " ", "load">>), Undercut(<<"Lifter", " ", "x2">>),
     Undercut(<<"SLIDE">>)}

RuleMaterials ==
    {NoneText, <<>>, <<"PP">>, <<"pp">>, <<"PP", "+GF">>, <<"ABS">>,
     <<"PC", "/", "ABS">>, <<"PA6">>, <<"PA6", "+GF">>, <<"PA6", "6">>,
     <<"POM">>, <<"PEEK">>}

MaxDefectDims == 2

MaxPressDims == 3

MaxGdandt == 2

MaxSuggestions == 2

HolePitch == <<"hole", " ", "pitch">>

\* dimensions around the 100 of the defect-risk rule
DefectDimChoices ==
    {RuleDim(HolePitch, 300, "mm", NoneText), RuleDim(HolePitch, 10000, "mm", NoneText),
     RuleDim(HolePitch, 15000, "mm", NoneText), RuleDim(HolePitch, 500, "in", NoneText),
     RuleDim(HolePitch, 5000, "cm", NoneText)}

\* dimensions for the press rule: 10 mm, 200 mm, 300 mm and 10 in
PressDimChoices ==
    {RuleDim(OverallLength, 1000, "mm", NoneText), RuleDim(<<"Width">>, 30000, "mm", NoneText),
     RuleDim(<<"height">>, 30000, "mm", NoneText), RuleDim(<<"height">>, 20000, "mm", NoneText),
     RuleDim(<<"Width">>, 1000, "in", NoneText), RuleDim(HolePitch, 30000, "mm", NoneText)}

Gdandt(value) == [value |-> value]

GdandtChoices ==
    {Gdandt(<<"0.02">>), Gdandt(<<"0.05">>), Gdandt(<<"0.1">>),
     Gdandt(<<"dia", " ", "0.02", " ", "A">>), Gdandt(<<"0.02", "-", "0.05">>),
     Gdandt(<<"MMC">>)}

DraftNote == <<"Draft", " ", "angle", " ", "min">>

SurfaceFinish(value) == [value |-> value]

FinishChoices ==
    {SurfaceFinish(<<"Mirror">>), SurfaceFinish(<<"Ra", " ", "0.1">>),
     SurfaceFinish(<<"Ra", " ", "1.6">>)}

PartingLine(complexity) == [complexity |-> complexity]

PartingChoices ==
    {PartingLine(<<"Complex">>), PartingLine(<<"straight">>), PartingLine(NoneText)}

GatingPoint(gate_type) == [gate_type |-> gate_type]

GateChoices ==
    {GatingPoint(<<"Hot", " ", "Runner", " ", "valve">>), GatingPoint(<<"edge", " ", "gate">>),
     GatingPoint(NoneText)}

RuleInputs ==
    {RuleAnalysis(dims, NoneText, <<>>, NoneNum) :
        dims \in SeqsUpTo(RuleDimChoices, MaxRuleDims)}
    \cup {RuleAnalysis(dims, mat, <<>>, NoneNum) :
            dims \in SeqsUpTo(DefectDimChoices, MaxDefectDims),
            mat \in {NoneText, <<>>, <<"ABS">>}}
    \cup {RuleAnalysis(dims, NoneText, <<>>, NoneNum) :
            dims \in SeqsUpTo(PressDimChoices, MaxPressDims)}
    \cup {[RuleAnalysis(<<>>, <<"ABS">>, <<>>, NoneNum) EXCEPT !.gdandt = g, !.notes = n] :
            g \in SeqsUpTo(GdandtChoices, MaxGdandt), n \in {<<>>, <<DraftNote>>}}
    \cup {[RuleAnalysis(<<>>, <<"ABS">>, <<>>, NoneNum) EXCEPT !.surface_finishes = f] :
            f \in SeqsUpTo(FinishChoices, MaxSuggestions)}
    \cup {[RuleAnalysis(<<>>, <<"ABS">>, <<>>, NoneNum) EXCEPT !.parting_line_suggestions = pl] :
            pl \in SeqsUpTo(PartingChoices, MaxSuggestions)}
    \cup {[RuleAnalysis(<<>>, <<"ABS">>, <<>>, NoneNum) EXCEPT !.gating_points = gp] :
            gp \in SeqsUpTo(GateChoices, MaxSuggestions)}
    \cup {[RuleAnalysis(<<RuleDim(WallRib, 5, "mm", PlusMinus("0.02")),
                          RuleDim(OverallLength, 30000, "mm", t),
                          RuleDim(<<"Width">>, 30000, "mm", NoneText)>>,
                        mat, <<Undercut(<<"slide">>)>>, 25)
                EXCEPT !.gdandt = <<g, Gdandt(<<"0.02">>)>>,
                       !.surface_finishes = <<SurfaceFinish(<<"Mirror">>)>>,
                       !.parting_line_suggestions = <<PartingLine(<<"Complex">>)>>,
                       !.gating_points = <<GatingPoint(<<"Hot", " ", "Runner", " ", "valve">>)>>] :
            g \in GdandtChoices, mat \in {NoneText, <<"PP">>},
            t \in {NoneText, <<"+", "0.1", "/", "-", "0.0">>}}
    \cup {RuleAnalysis([i \in 1..n |-> Filler], NoneText, ucs, NoneNum) :
            n \in 0..MaxFillers, ucs \in SeqsUpTo(UndercutChoices, MaxUndercuts)}
    \cup {RuleAnalysis(<<>>, mat, <<>>, ratio) :
            mat \in RuleMaterials, ratio \in {NoneNum, 15, 25}}

InitRules ==
    /\ RepairIdle /\ MergeIdle /\ SummaryIdle /\ PipelineIdle
    /\ ruleIn \in RuleInputs
    /\ rule = "" /\ ruleOut = <<>> /\ ruleReport = NoReport

RunRule(name, found) ==
    /\ rule = ""
    /\ rule' = name
    /\ ruleOut' = found
    /\ UNCHANGED <<ruleIn, ruleReport, repairVars, mergeVars, sumVars, pipeVars>>

WallThicknessRule == RunRule("wall_thickness", CheckWallThickness(ruleIn))

ToleranceRule == RunRule("tolerance", CheckDimensionsTolerance(ruleIn))

UndercutRule == RunRule("undercuts", CheckUndercuts(ruleIn))

ShrinkageRule == RunRule("shrinkage_warpage", CheckShrinkageWarpage(ruleIn))

DefectRiskRule == RunRule("defect_risks", CheckDefectRisks(ruleIn))

PressRule == RunRule("press_capabilities", CheckPressCapabilities(ruleIn))

\* ExceptionEngine.validate_analysis: every check in its order, then the
\* report; the analysis is only read
ValidateAnalysis ==
    /\ rule = ""
    /\ rule' = "validate_analysis"
    /\ ruleOut' = AllFindings(ruleIn)
    /\ ruleReport' = BuildReport(AllFindings(ruleIn))
    /\ UNCHANGED <<ruleIn, repairVars, mergeVars, sumVars, pipeVars>>

NextRules ==
    \/ WallThicknessRule
    \/ ToleranceRule
    \/ UndercutRule
    \/ ShrinkageRule
    \/ DefectRiskRule
    \/ PressRule
    \/ ValidateAnalysis

SpecRules == InitRules /\ [][NextRules]_vars

(***************************************************************************)
(* PROPERTIES OF THE REPAIR AND OF THE SUMMARY                             *)
(***************************************************************************)
\* C2: for every finding list the summary has can_proceed exactly when it
\* counts no critical finding, the report requires client approval exactly
\* when it counts one, and the count is the number of critical findings.
C2_CanProceedIffNoCritical ==
    spc = "done" =>
        /\ sreport.summary.critical_count = CountSeverity(findings, "critical")
        /\ sreport.summary.can_proceed = (sreport.summary.critical_count = 0)
        /\ sreport.requires_client_approval = (sreport.summary.critical_count > 0)
        /\ sreport.requires_client_approval = ~sreport.summary.can_proceed

\* a report for a list with a critical finding
C2_Witness ==
    /\ spc = "done"
    /\ \E i \in 1..Len(findings) : findings[i].severity = "critical"
    /\ ~sreport.summary.can_proceed /\ sreport.requires_client_approval

\* the texts of C9: a well-formed object without its final closing brace
MissingFinalBrace ==
    /\ JsonLoads(doc).ok
    /\ doc[Len(doc)] = "}"
    /\ cut = Len(doc) - 1

\* C9: for a well-formed specification text without its final closing
\* brace, _repair_truncated_json returns a text that parses to the value of
\* the complete text, whatever the string values hold.
C9_MissingBraceRepaired ==
    (rpc = "done" /\ MissingFinalBrace) =>
        /\ out.ok
        /\ JsonLoads(out.text).ok
        /\ JsonLoads(out.text).val = JsonLoads(doc).val

(***************************************************************************)
(* PROPERTIES OF THE MERGER AND THE FALLBACK                               *)
(***************************************************************************)
HighConfidence(d) ==
    /\ "confidence" \in DOMAIN d
    /\ d["confidence"] # NoneNum
    /\ d["confidence"] >= OcrConfidenceThreshold

SameDimension(a, b) ==
    \A f \in {"feature", "value", "unit", "tolerance", "bbox", "confidence"} :
        /\ (f \in DOMAIN a) = (f \in DOMAIN b)
        /\ (f \in DOMAIN a => a[f] = b[f])

\* C3: when an exception is caught anywhere in apply_ocr_fallback, the
\* analysis it returns has exactly the dimension list it was called with.
C3_ErrorKeepsDimensions ==
    (mpc = "fellback" /\ fOut.raised) =>
        fOut.analysis.dimensions = fIn.analysis.dimensions

\* an exception caught inside the page loop, with low-confidence dimensions
C3_Witness ==
    /\ mpc = "fellback" /\ fOut.raised /\ fIn.docAi = "ok"
    /\ \E i \in 1..Len(fIn.analysis.dimensions) :
          IsLowConfidence(fIn.analysis.dimensions[i])

\* C4: a dimension whose confidence is >= the threshold is, after
\* merge_with_vlm_results, in the returned list at its own position with the
\* same feature, value, unit, tolerance, bbox and confidence; and after
\* apply_ocr_fallback it is in the analysis with the same six fields.
C4_HighConfidenceUnchanged ==
    /\ mpc = "merged" =>
          \A i \in 1..Len(fIn.vlm) :
              HighConfidence(fIn.vlm[i]) =>
                  /\ i <= Len(mOut.merged)
                  /\ SameDimension(mOut.merged[i], fIn.vlm[i])
    /\ mpc = "fellback" =>
          \A i \in 1..Len(fIn.analysis.dimensions) :
              HighConfidence(fIn.analysis.dimensions[i]) =>
                  \E j \in 1..Len(fOut.analysis.dimensions) :
                      SameDimension(fOut.analysis.dimensions[j],
                                    fIn.analysis.dimensions[i])

\* a merge that kept a dimension at exactly the threshold and replaced the
\* value of another one by an OCR token
C4_Witness ==
    /\ mpc = "merged" /\ ~mOut.raised
    /\ \E i \in 1..Len(fIn.vlm) :
          HighConfidence(fIn.vlm[i])
              /\ fIn.vlm[i]["confidence"] = OcrConfidenceThreshold
    /\ \E j \in 1..Len(fIn.vlm) : mOut.src[j] # 0

\* C5: in the list a merge returns, no OCR token supplies the value of two
\* records (replacements and ocr_only records together).
C5_TokenUsedAtMostOnce ==
    mpc = "merged" =>
        \A i, j \in 1..Len(mOut.src) :
            (i # j /\ mOut.src[i] # 0) => mOut.src[i] # mOut.src[j]

\* two low-confidence dimensions with the same rounded bbox key, the first
\* of which took the token at that key
C5_Witness ==
    /\ mpc = "merged" /\ ~mOut.raised /\ Len(fIn.vlm) = 2
    /\ ~HighConfidence(fIn.vlm[1]) /\ ~HighConfidence(fIn.vlm[2])
    /\ BBoxTruthy(fIn.vlm[1]) /\ BBoxTruthy(fIn.vlm[2])
    /\ RoundedKey(fIn.vlm[1]["bbox"]) = RoundedKey(fIn.vlm[2]["bbox"])
    /\ mOut.src[1] # 0 /\ mOut.src[2] = 0

(***************************************************************************)
(* PROPERTIES OF THE PARSER AND THE PIPELINE                               *)
(***************************************************************************)
FailsParseAndRepair(r) ==
    r.kind = "text" /\ ~JsonLoads(r.text).ok /\ ~RepairTruncatedJson(r.text).ok

\* C1: one extraction request calls the upstream model at most twice, and
\* the second call is there only when the first response failed both
\* json.loads and the repair.
C1_AtMostTwoCalls ==
    /\ calls <= 2
    /\ Len(received) <= calls
    /\ calls = 2 => (Len(received) >= 1 /\ FailsParseAndRepair(received[1]))

\* the retry's response failed too and the parser raised without a third call
C1_Witness ==
    /\ calls = 2 /\ Len(received) = 2 /\ FailsParseAndRepair(received[2])
    /\ pc = "failed"

ExtractionFailed == cause \in {"truncated", "malformed", "timeout"}

\* C6: when extraction fails (truncated, malformed, timeout) the run calls
\* neither validate_analysis nor generate_both_reports, the record gets no
\* report URL, and the record, while it exists, has status FAILED.
C6_ExtractionFailureEndsRun ==
    ExtractionFailed =>
        /\ pc = "failed"
        /\ engineRuns = 0 /\ reportRuns = 0
        /\ ~record.urls
        /\ record.exists => record.status = FAILED

\* a run whose extraction failed and whose record says so
C6_Witness ==
    ExtractionFailed /\ record.exists /\ record.status = FAILED

\* what a caller reads from the exception it catches
Classify(e) ==
    IF e.cls \in {"ValidationError", "TypeError"} THEN "malformed"
    ELSE IF e.cls = "ValueError" /\ e.msg = "model timed out" THEN "timeout"
    ELSE IF e.cls = "ValueError"
            /\ e.msg = "parse failed after retry with concise prompt"
    THEN "truncated"
    ELSE "other"

\* C7: the exception the parser raises tells the three extraction failures
\* apart: from its class and message the caller gets the failure that
\* happened, so no two of them give the same outcome.
C7_FailuresDistinguishable ==
    ExtractionFailed =>
        parsed.kind = "error" /\ Classify(parsed.error) = cause

\* repair and the retry both failed
C7_Witness ==
    /\ cause = "truncated" /\ Len(received) = 2
    /\ parsed.error = RetryParseError

ValidAnalysis(an) ==
    \A i \in 1..Len(an.dimensions) :
        /\ DOMAIN an.dimensions[i] = DimensionFields
        /\ NewDimension(an.dimensions[i]).ok

\* C8: a timed-out upstream call is the last one of its request and the
\* parser raises the timeout error; the parser ends with a validated
\* analysis or with an error and no analysis.
C8_TimeoutEndsParser ==
    /\ \A i \in 1..Len(received) :
          received[i].kind = "timeout" =>
              /\ i = Len(received) /\ calls = i
              /\ pc = "failed"
              /\ parsed = Raise(TimedOutError)
    /\ parsed.kind \in {"none", "analysis", "error"}
    /\ parsed.kind = "none" => pc \in {"pending", "process_drawing",
                                       "pdf_to_images", "call", "failed"}
    /\ parsed.kind = "error" =>
          pc = "failed" /\ parsed.analysis = NoAnalysis /\ parsed.error # NoError
    /\ parsed.kind = "analysis" =>
          parsed.error = NoError /\ ValidAnalysis(parsed.analysis)

\* a timeout of the concise-prompt retry
C8_Witness ==
    /\ retry /\ Len(received) = 2 /\ received[2].kind = "timeout"
    /\ parsed = Raise(TimedOutError)

\* C10: a response cut inside the numeric array of a dimension, after
\* "value": [0.12, 0.45, is repaired by the parser without the retry, and
\* the analysis keeps the dimension that was complete before the cut.
C10_DanglingArrayRepaired ==
    (/\ Len(received) >= 1
     /\ received[1] \in {TextResponse(DanglingArrayText(st)) : st \in Styles}) =>
        /\ calls = 1
        /\ parsed.kind = "analysis"
        /\ Len(parsed.analysis.dimensions) >= 1

(***************************************************************************)
(* PROPERTIES OF SCHEMA VALIDATION                                         *)
(***************************************************************************)
\* the JSON value the parser reads from a response text, directly or after
\* the repair
ValueRead(text) ==
    IF JsonLoads(text).ok THEN JsonLoads(text)
    ELSE IF RepairTruncatedJson(text).ok
         THEN JsonLoads(RepairTruncatedJson(text).text)
         ELSE [ok |-> FALSE, val |-> JNull]

\* an object without the dimension list key, or with a dimension that lacks
\* feature, value or unit
LacksRequired(v) ==
    /\ v.t = "obj"
    /\ \/ ~HasKey(v, "dimensions")
       \/ /\ Lookup(v, "dimensions").t = "arr"
          /\ \E i \in 1..Len(Lookup(v, "dimensions").items) :
                LET d == Lookup(v, "dimensions").items[i] IN
                d.t = "obj" /\ \E k \in RequiredDimensionFields : ~HasKey(d, k)

LastResponseLacksRequired ==
    /\ Len(received) >= 1
    /\ received[Len(received)].kind = "text"
    /\ ValueRead(received[Len(received)].text).ok
    /\ LacksRequired(ValueRead(received[Len(received)].text).val)

\* C11: a parsed response without the dimension list key, or with a
\* dimension lacking feature, value or unit, makes the parser raise and
\* return no analysis; the empty object is such a response.
C11_MissingFieldsRejected ==
    LastResponseLacksRequired =>
        parsed.kind = "error" /\ parsed.analysis = NoAnalysis

(***************************************************************************)
(* PROPERTIES OF THE MERGER, CONTINUED                                     *)
(***************************************************************************)
\* record m is record d with "low_confidence": True added and nothing else
\* changed
FlaggedCopy(m, d) ==
    /\ DOMAIN m = (DOMAIN d) \cup {"low_confidence"}
    /\ m["low_confidence"] = TRUE
    /\ \A k \in DOMAIN d : m[k] = d[k]

\* C12 as stated: with an empty OCR token list the merger returns its input
\* list unchanged, no field added, and a recovered count of 0.
C12_EmptyOcrReturnsInput ==
    (mpc = "merged" /\ ocrIn = <<>>) =>
        mOut.merged = fIn.vlm /\ mOut.fields_recovered = 0

\* C12 amended: with an empty OCR token list the merger returns one record
\* per input dimension in input order and a recovered count of 0; a record
\* at or above the threshold (or without a confidence) is its input, a
\* record below it is its input with low_confidence = TRUE added; the input
\* list itself comes back when the merge failed inside.
C12_EmptyOcrFlagsLowConfidence ==
    (mpc = "merged" /\ ocrIn = <<>>) =>
        /\ mOut.fields_recovered = 0
        /\ Len(mOut.merged) = Len(fIn.vlm)
        /\ \A i \in 1..Len(fIn.vlm) :
              IF mOut.raised
                 \/ "confidence" \notin DOMAIN fIn.vlm[i]
                 \/ HighConfidence(fIn.vlm[i])
              THEN mOut.merged[i] = fIn.vlm[i]
              ELSE FlaggedCopy(mOut.merged[i], fIn.vlm[i])

\* a merge with no OCR token that flagged a low-confidence dimension
C12_Witness ==
    /\ mpc = "merged" /\ ocrIn = <<>> /\ ~mOut.raised
    /\ \E i \in 1..Len(fIn.vlm) :
          /\ "confidence" \in DOMAIN fIn.vlm[i]
          /\ ~HighConfidence(fIn.vlm[i])
          /\ "low_confidence" \in DOMAIN mOut.merged[i]

\* a confidence that is a number below the threshold
BelowThreshold(d) ==
    /\ "confidence" \in DOMAIN d
    /\ d["confidence"] # NoneNum
    /\ d["confidence"] < OcrConfidenceThreshold

\* no bbox, or no OCR token whose bbox rounds to the key of the dimension's
NoCandidate(d, ocr) ==
    \/ ~BBoxTruthy(d)
    \/ /\ d["bbox"].kind = "list"
       /\ \A j \in 1..Len(ocr) :
             BBoxTruthy(ocr[j]) =>
                 RoundedKey(ocr[j]["bbox"]) # RoundedKey(d["bbox"])

\* C13: the output has a record for every input dimension, and a
\* dimension below the threshold without bbox or without OCR entry under
\* its key keeps value and confidence and is flagged low_confidence.
C13_UnmatchedAlwaysFlagged ==
    mpc = "merged" =>
        /\ Len(mOut.merged) >= Len(fIn.vlm)
        /\ \A i \in 1..Len(fIn.vlm) :
              (BelowThreshold(fIn.vlm[i]) /\ NoCandidate(fIn.vlm[i], ocrIn)) =>
                  FlaggedCopy(mOut.merged[i], fIn.vlm[i])

\* OCR token j supplied the value of the record of some input dimension
Consumed(j) == \E i \in 1..Len(fIn.vlm) : mOut.src[i] = j

\* the records after those of the input dimensions that carry OCR token j
\* as an OCR-only dimension: unit mm and the token's confidence
OcrOnlyRecordsOf(j) ==
    { k \in (Len(fIn.vlm) + 1)..Len(mOut.merged) :
        /\ mOut.src[k] = j
        /\ mOut.merged[k]["source"] = "ocr_only"
        /\ mOut.merged[k]["unit"] = "mm"
        /\ mOut.merged[k]["value"] = ocrIn[j]["value"]
        /\ mOut.merged[k]["confidence"] = ocrIn[j]["confidence"] }

\* C14: after a merge that did not fail inside, every OCR token that was
\* not consumed as a replacement is in the output exactly once, as an
\* ocr_only record with unit mm and the token's confidence.
C14_UnconsumedTokensAppended ==
    (mpc = "merged" /\ ~mOut.raised) =>
        \A j \in 1..Len(ocrIn) :
            ~Consumed(j) => Cardinality(OcrOnlyRecordsOf(j)) = 1

FindingsAbout(i) == {k \in 1..Len(ruleOut) : ruleOut[k].subject = i}

\* the high-shrinkage findings of the rule that ran
HighShrinkageFindings == {k \in 1..Len(ruleOut) : ruleOut[k].reference = "SW001"}

\* the entries of the shrinkage table whose key is the material itself
OwnEntries(material) ==
    {i \in 1..Len(ShrinkageData) : ShrinkageData[i].key = Upper(material)}

\* C16: for a material that has its own entry in the shrinkage table, the
\* shrinkage rule yields one high-shrinkage WARNING when that entry is in
\* the high-risk bucket and no high-shrinkage finding otherwise ("PP": one,
\* "PA6+GF": none).
C16_OwnEntryDecides ==
    rule = "shrinkage_warpage" =>
        \A i \in OwnEntries(ruleIn.material) :
            /\ Cardinality(HighShrinkageFindings)
                  = IF ShrinkageData[i].risk = "high" THEN 1 ELSE 0
            /\ \A k \in HighShrinkageFindings : ruleOut[k].severity = "warning"

\* the millimetres of x by its unit, counted as ToMm counts them:
\* unchanged for mm, * 10 for cm, * 25.4 for in
Millimetres(x, unit) ==
    CASE unit = "mm" -> x * 1000
      [] unit = "cm" -> x * 10000
      [] OTHER -> x * 25400

HasThicknessKeyword(dim) ==
    \E i \in 1..Len(dim.feature) : LowerAtom(dim.feature[i]) \in {"wall", "thickness", "rib"}

\* C17: for each dimension with a thickness keyword the wall-thickness rule
\* has at most one finding: one CRITICAL (probability 0.9, short_shot) when
\* its millimetres are below 0.6, one WARNING (probability 0.7) when they
\* are above 4.0, none from 0.6 to 4.0.
C17_WallThicknessFindings ==
    rule = "wall_thickness" =>
        \A i \in 1..Len(ruleIn.dimensions) :
            LET dim == ruleIn.dimensions[i]
                mm == Millimetres(dim.value, dim.unit)
                about == FindingsAbout(i)
            IN HasThicknessKeyword(dim) =>
                  /\ Cardinality(about) <= 1
                  /\ mm < 60000 =>
                        \E k \in about :
                            /\ ruleOut[k].severity = "critical"
                            /\ ruleOut[k].probability_score = 90
                            /\ ruleOut[k].defect_risk = "short_shot"
                  /\ mm > 400000 =>
                        \E k \in about :
                            /\ ruleOut[k].severity = "warning"
                            /\ ruleOut[k].probability_score = 70
                  /\ (mm >= 60000 /\ mm <= 400000) => about = {}

\* a tolerance of the form ±X, the number X in thousandths
IsPlusMinus(tolerance) ==
    /\ tolerance # NoneText /\ tolerance # <<>>
    /\ tolerance[1] = "±"
    /\ tolerance[Len(tolerance)] \in ToleranceNumerals
    /\ \A i \in 2..(Len(tolerance) - 1) : tolerance[i] = " "

\* C18: for each dimension with a tolerance ±X the tolerance rule has one
\* CRITICAL finding (probability 0.85) when X in millimetres is below 0.05
\* and none otherwise.
C18_ToleranceFindings ==
    rule = "tolerance" =>
        \A i \in 1..Len(ruleIn.dimensions) :
            LET dim == ruleIn.dimensions[i]
                about == FindingsAbout(i)
            IN IsPlusMinus(dim.tolerance) =>
                  LET x == Thousandths(dim.tolerance[Len(dim.tolerance)])
                  IN IF Millimetres(x, dim.unit) < 50000
                     THEN /\ Cardinality(about) = 1
                          /\ \A k \in about :
                                /\ ruleOut[k].severity = "critical"
                                /\ ruleOut[k].probability_score = 85
                     ELSE about = {}

\* C20: the number a wall-thickness or tolerance finding was decided on is
\* the dimension's value (the tolerance's number) in millimetres: * 25.4
\* for inches, * 10 for centimetres, unchanged for millimetres.
C20_ConvertedByUnit ==
    rule \in {"wall_thickness", "tolerance"} =>
        \A k \in 1..Len(ruleOut) :
            LET dim == ruleIn.dimensions[ruleOut[k].subject]
                x == IF rule = "wall_thickness" THEN dim.value
                     ELSE Float(StripTolerance(dim.tolerance)).value
            IN ruleOut[k].value_mm = Millimetres(x, dim.unit)

\* the text holds the word, in any letter case
Mentions(text, word) == \E i \in 1..Len(text) : LowerAtom(text[i]) = word

\* C19: with an empty undercut list the undercut check yields one INFO
\* finding when the analysis has more than 10 dimensions and none with 10
\* or fewer; with undercuts it yields one finding per undercut, in order,
\* CRITICAL with probability 0.8 when the required action mentions slide or
\* lifter (in any letter case), WARNING with probability 0.5 otherwise, and
\* no INFO finding.
C19_UndercutFindings ==
    rule = "undercuts" =>
        IF ruleIn.undercuts = <<>>
        THEN IF Len(ruleIn.dimensions) > 10
             THEN /\ Len(ruleOut) = 1
                  /\ ruleOut[1].severity = "info"
                  /\ ruleOut[1].category = "undercut"
             ELSE ruleOut = <<>>
        ELSE /\ Len(ruleOut) = Len(ruleIn.undercuts)
             /\ \A i \in 1..Len(ruleOut) :
                   LET action == ruleIn.undercuts[i].requires_action IN
                   /\ ruleOut[i].subject = i
                   /\ ruleOut[i].category = "undercut"
                   /\ IF Mentions(action, "slide") \/ Mentions(action, "lifter")
                      THEN /\ ruleOut[i].severity = "critical"
                           /\ ruleOut[i].probability_score = 80
                      ELSE /\ ruleOut[i].severity = "warning"
                           /\ ruleOut[i].probability_score = 50

\* the undercut check ran on 11 dimensions without undercuts
C19_Witness ==
    /\ rule = "undercuts" /\ ruleIn.undercuts = <<>>
    /\ Len(ruleIn.dimensions) = 11
    /\ Len(ruleOut) = 1 /\ ruleOut[1].severity = "info"


(***************************************************************************)
(* PROPERTIES OF THE REMAINING RULES AND OF THE REPORT                     *)
(***************************************************************************)
\* a dimension whose length in millimetres exceeds 100
ExceedsHundredMm(dim) == Millimetres(dim.value, dim.unit) > 10000 * 1000

\* C21: the defect-risk check yields exactly one WARNING (defect warp,
\* probability 0.6) when the analysis has a material and at least one
\* dimension whose length in millimetres exceeds 100, and nothing
\* otherwise; it never yields more than one finding.
C21_DefectRiskByMillimetres ==
    rule = "defect_risks" =>
        IF HasMaterial(ruleIn)
              /\ \E i \in 1..Len(ruleIn.dimensions) : ExceedsHundredMm(ruleIn.dimensions[i])
        THEN /\ Len(ruleOut) = 1
             /\ ruleOut[1].severity = "warning"
             /\ ruleOut[1].category = "molding_defect_risk"
             /\ ruleOut[1].defect_risk = "warp"
             /\ ruleOut[1].probability_score = 60
        ELSE ruleOut = <<>>


\* the findings of the shrinkage check about the wall-thickness variation
VariationFindings ==
    {k \in 1..Len(ruleOut) :
        /\ ruleOut[k].reference = "SW002"
        /\ ruleOut[k].severity = "warning"
        /\ ruleOut[k].category = "shrinkage_warpage"
        /\ ruleOut[k].probability_score = 70}

\* C22: when the wall-thickness variation ratio exceeds 2.0 the shrinkage
\* check yields one WARNING with probability 0.7 about it, whether the
\* material is matched, unmatched or absent.
C22_VariationWarningWhateverMaterial ==
    (rule = "shrinkage_warpage" /\ ruleIn.variation_ratio > 20) =>
        Cardinality(VariationFindings) = 1


\* the positions of the two largest (in millimetres) of the dimensions the
\* press rule looks at
TwoLargest(dims, overall) ==
    LET a == CHOOSE i \in 1..Len(overall) :
                 \A j \in 1..Len(overall) :
                     Millimetres(dims[overall[j]].value, dims[overall[j]].unit)
                         <= Millimetres(dims[overall[i]].value, dims[overall[i]].unit)
        b == CHOOSE i \in (1..Len(overall)) \ {a} :
                 \A j \in (1..Len(overall)) \ {a} :
                     Millimetres(dims[overall[j]].value, dims[overall[j]].unit)
                         <= Millimetres(dims[overall[i]].value, dims[overall[i]].unit)
    IN <<overall[a], overall[b]>>

\* millimetres in tenths
TenthsOfMm(dim) == Millimetres(dim.value, dim.unit) \div 10000

\* C23: the press check takes the two largest (in millimetres) of the
\* dimensions tagged overall, length, width, height or diameter, whatever
\* their position in the list, and yields exactly one CRITICAL finding when
\* 2 * (a * b / 100 / 6.45) exceeds 150 for them, nothing otherwise; with
\* fewer than two tagged dimensions it yields nothing.
C23_PressUsesTwoLargest ==
    rule = "press_capabilities" =>
        LET dims == ruleIn.dimensions
            overall == OverallDims(dims)
        IN IF Len(overall) < 2 THEN ruleOut = <<>>
           ELSE LET two == TwoLargest(dims, overall) IN
                IF TenthsOfMm(dims[two[1]]) * TenthsOfMm(dims[two[2]]) > 48375 * 100
                THEN /\ Len(ruleOut) = 1
                     /\ ruleOut[1].severity = "critical"
                     /\ ruleOut[1].category = "press_capability"
                ELSE ruleOut = <<>>


\* a tolerance text that is present and is not a number, with or without
\* a leading plus-minus sign
UnparseableTolerance(t) ==
    /\ t # NoneText /\ t # <<>>
    /\ ~ \E n \in ToleranceNumerals : t \in {<<n>>, <<"±", n>>, <<"±", " ", n>>}

\* a GD&T value whose digits and dots run two numerals together
UnparseableValue(v) == Cardinality({i \in 1..Len(v) : v[i] \in ToleranceNumerals}) >= 2

\* the analysis with every unparseable tolerance and GD&T value blanked
WithoutUnparseable(analysis) ==
    [analysis EXCEPT
        !.dimensions = [i \in 1..Len(analysis.dimensions) |->
            IF UnparseableTolerance(analysis.dimensions[i].tolerance)
            THEN [analysis.dimensions[i] EXCEPT !.tolerance = NoneText]
            ELSE analysis.dimensions[i]],
        !.gdandt = [i \in 1..Len(analysis.gdandt) |->
            IF UnparseableValue(analysis.gdandt[i].value)
            THEN [analysis.gdandt[i] EXCEPT !.value = <<>>]
            ELSE analysis.gdandt[i]]]

\* C24: a tolerance text or GD&T value that is not a number is skipped and
\* nothing else: validate_analysis returns a report, and its findings are
\* the findings of the same analysis with the unparseable fields blank.
C24_UnparseableFieldSkipped ==
    rule = "validate_analysis" =>
        /\ ruleReport.exceptions = AllFindings(WithoutUnparseable(ruleIn))
        /\ ruleReport.summary.total_exceptions = Len(ruleReport.exceptions)

\* a report for an analysis with an unparseable tolerance and an
\* unparseable GD&T value followed by a GD&T value that yields a finding
C24_Witness ==
    /\ rule = "validate_analysis"
    /\ \E i \in 1..Len(ruleIn.dimensions) :
           UnparseableTolerance(ruleIn.dimensions[i].tolerance)
    /\ Len(ruleIn.gdandt) = 2 /\ UnparseableValue(ruleIn.gdandt[1].value)
    /\ \E k \in 1..Len(ruleReport.exceptions) :
           /\ ruleReport.exceptions[k].category = "gdandt"
           /\ ruleReport.exceptions[k].subject = 2


\* the findings of one category in a finding list, in their order
OfCategory(found, cat) == SelectSeq(found, LAMBDA f : f.category = cat)

\* the categories of the report in the order of their checks; the two
\* checks of category wall_thickness and dimension come first
CategoryOrder ==
    <<"wall_thickness", "dimension", "draft_angle", "gdandt", "surface_finish",
      "molding_defect_risk", "material", "undercut", "parting_line", "gating",
      "shrinkage_warpage", "press_capability">>

\* the findings one check alone yields for the analysis, by its category
CategoryFindings(analysis, cat) ==
    CASE cat = "wall_thickness" -> CheckWallThickness(analysis)
      [] cat = "dimension" -> CheckDimensionsTolerance(analysis)
      [] cat = "draft_angle" -> CheckDraftAngles(analysis)
      [] cat = "gdandt" -> CheckGdandtSpecs(analysis)
      [] cat = "surface_finish" -> CheckSurfaceFinish(analysis)
      [] cat = "molding_defect_risk" -> CheckDefectRisks(analysis)
      [] cat = "material" -> CheckMaterialCompatibility(analysis)
      [] cat = "undercut" -> CheckUndercuts(analysis)
      [] cat = "parting_line" -> CheckPartingLine(analysis)
      [] cat = "gating" -> CheckGating(analysis)
      [] cat = "shrinkage_warpage" -> CheckShrinkageWarpage(analysis)
      [] cat = "press_capability" -> CheckPressCapabilities(analysis)

\* the order of the categories in a finding list: no finding of a later
\* category stands before a finding of an earlier one
InCategoryOrder(found) ==
    \A i, j \in 1..Len(found) :
        i < j => \E a, b \in 1..Len(CategoryOrder) :
                    /\ a <= b
                    /\ found[i].category = CategoryOrder[a]
                    /\ found[j].category = CategoryOrder[b]

\* in a report every category holds what its check yields alone, in the
\* fixed order of the categories
FindingsByCategory ==
    rule = "validate_analysis" =>
        /\ InCategoryOrder(ruleReport.exceptions)
        /\ \A c \in 1..Len(CategoryOrder) :
               OfCategory(ruleReport.exceptions, CategoryOrder[c])
                   = CategoryFindings(ruleIn, CategoryOrder[c])

\* C25: validate_analysis leaves the analysis as it was; the findings of
\* each category in the report are the findings its check yields for the
\* analysis taken alone, and the report lists the categories in one fixed
\* order.
C25_CategoriesIndependent ==
    /\ []FindingsByCategory
    /\ [][rule' = "validate_analysis" => ruleIn' = ruleIn]_vars

\* a report with findings of at least six categories
C25_Witness ==
    /\ rule = "validate_analysis"
    /\ Cardinality({ruleReport.exceptions[k].category :
                       k \in 1..Len(ruleReport.exceptions)}) >= 6


\* the lines of the action list with one tag, as positions in the list
LinesTagged(items, tag) == {k \in 1..Len(items) : items[k].tag = tag}

\* the findings the lines of one tag render, in the order of the lines
Rendered(items, tag) ==
    LET lines == SelectSeq(items, LAMBDA l : l.tag = tag)
    IN [k \in 1..Len(lines) |-> lines[k].of]

\* the first n positions of the findings of one severity
FirstOf(found, sev, n) ==
    LET all == SelectSeq([i \in 1..Len(found) |-> i], LAMBDA i : found[i].severity = sev)
    IN SubSeq(all, 1, IF Len(all) < n THEN Len(all) ELSE n)

\* the action list renders every CRITICAL finding in finding order, then
\* the first five WARNING findings at most, and no INFO finding
CriticalThenWarnings(found, items) ==
    /\ Rendered(items, "CRITICAL") = FirstOf(found, "critical", Len(found))
    /\ Rendered(items, "WARNING") = FirstOf(found, "warning", 5)
    /\ \A k \in 1..Len(items) : items[k].tag \in {"CRITICAL", "WARNING", "REVIEW"}
    /\ \A k \in LinesTagged(items, "WARNING") :
           \A j \in LinesTagged(items, "CRITICAL") : j < k

\* exactly one generic line, the last element of the list
EndsWithOneReview(items) ==
    /\ Cardinality(LinesTagged(items, "REVIEW")) = 1
    /\ items # <<>> /\ items[Len(items)].tag = "REVIEW"

\* the claim as it stands: for any finding list the action list is the
\* CRITICAL lines, then at most five WARNING lines, then one generic line
C26_AlwaysOneReviewLine ==
    spc = "done" =>
        /\ CriticalThenWarnings(findings, sreport.action_items)
        /\ EndsWithOneReview(sreport.action_items)

\* C26: for any non-empty finding list the action list is one line per
\* CRITICAL finding in finding order, then lines for at most the first
\* five WARNING findings, then exactly one generic line as its last
\* element; INFO findings have no line and no WARNING line precedes a
\* CRITICAL line. For the empty finding list the action list is empty.
C26_ActionItems ==
    spc = "done" =>
        /\ CriticalThenWarnings(findings, sreport.action_items)
        /\ IF findings = <<>> THEN sreport.action_items = <<>>
           ELSE EndsWithOneReview(sreport.action_items)

\* an action list for six WARNING findings, a CRITICAL after the first of
\* them and no other finding
C26_Witness ==
    /\ spc = "done"
    /\ Len(findings) = 7
    /\ Cardinality({i \in 1..7 : findings[i].severity = "warning"}) = 6
    /\ findings[2].severity = "critical"
    /\ Len(sreport.action_items) = 7


\* the input dimensions whose value the merge replaced by an OCR token
ReplacedDimensions == {i \in 1..Len(fIn.vlm) : mOut.src[i] # 0}

\* the records the merge appended after those of the input dimensions
AppendedRecords == (Len(fIn.vlm) + 1)..Len(mOut.merged)

\* the claim as it stands: the recovered count is the number of replaced
\* dimensions, whatever is appended
C27_CountsReplacedOnly ==
    mpc = "merged" => mOut.fields_recovered = Cardinality(ReplacedDimensions)

\* C27: the recovered count returned by the merger is the number of
\* low-confidence dimensions whose value was replaced by a matching OCR
\* token plus the number of OCR tokens appended as ocr_only records.
C27_CountsReplacedAndAppended ==
    mpc = "merged" =>
        /\ mOut.fields_recovered
              = Cardinality(ReplacedDimensions) + Cardinality(AppendedRecords)
        /\ \A i \in ReplacedDimensions : mOut.merged[i]["source"] = "ocr_fallback"
        /\ \A k \in AppendedRecords : mOut.merged[k]["source"] = "ocr_only"

\* a merge that replaced one dimension and appended one token
C27_Witness ==
    /\ mpc = "merged"
    /\ Cardinality(ReplacedDimensions) = 1
    /\ Cardinality(AppendedRecords) = 1
    /\ mOut.fields_recovered = 2


\* C28: _repair_truncated_json returns a text that parses as JSON as it is,
\* and for every text it returns None or a text that parses; so for a text
\* that parses the parser yields what the direct deserialization yields and
\* asks for no retry.
C28_RepairIdentityOnValid ==
    rpc = "done" =>
        LET text == Prefix(doc, cut) IN
        /\ JsonLoads(text).ok => (out.ok /\ out.text = text)
        /\ out.ok => JsonLoads(out.text).ok
        /\ JsonLoads(text).ok =>
              /\ ParseResponse(text, FALSE) = Validate(JsonLoads(text).val)
              /\ ParseResponse(text, FALSE).kind # "retry"

\* the repair of a complete specification text with a dimension
C28_Witness ==
    /\ rpc = "done" /\ cut = Len(doc) /\ Len(doc) > 10
    /\ JsonLoads(doc).ok
    /\ out.ok /\ out.text = doc


\* the response gave page p a dimension whose confidence is below the
\* threshold (a confidence of 0 is below it)
PageHasLowConfidence(p) ==
    \E i \in 1..Len(dimsIn) :
        /\ dimsIn[i]["page"] = p
        /\ "confidence" \in DOMAIN dimsIn[i]
        /\ dimsIn[i]["confidence"] # NoneNum
        /\ dimsIn[i]["confidence"] < OcrConfidenceThreshold

\* C29: with Document AI configured, apply_ocr_fallback sends a page to OCR
\* exactly when the page has a dimension whose confidence is strictly below
\* the threshold; when no page has one the analysis is returned unchanged.
C29_OcrExactlyForLowPages ==
    (mpc = "fellback" /\ fIn.docAi = "ok") =>
        /\ \A p \in 1..fIn.nImages : (p \in fOut.ocrPages) <=> PageHasLowConfidence(p)
        /\ (\A p \in 1..fIn.nImages : ~PageHasLowConfidence(p)) =>
               fOut.analysis = fIn.analysis


\* C30: once the record has been saved COMPLETED with the report URLs, no
\* later step of the run changes its status to FAILED.
C30_CompletedStaysCompleted ==
    [][(record.exists /\ record.status = COMPLETED /\ record.urls)
          => ~(record'.exists /\ record'.status = FAILED)]_vars

====
